---- MODULE Spec2Model ----
(***************************************************************************)
(* A model of the agent-engine core of email-agent-core:                   *)
(*   src/src/agent-engine/core/Action.ts     (Action, ActionPipeline)      *)
(*   src/src/agent-engine/llm/LlamaCppLLM.ts (LlamaCppLLM)                 *)
(*                                                                         *)
(* Objects live in a heap: objs[i] is the i-th unit that was constructed,  *)
(* arrs[a] is the a-th step array that was allocated.  An ActionPipeline   *)
(* holds a reference to its step array.  Asynchronous calls are modelled   *)
(* as call stacks of frames, one stack per chain of awaits.                *)
(***************************************************************************)
EXTENDS Integers, Sequences, FiniteSets, TLC

(***************************************************************************)
(* Bounds of the model.                                                    *)
(***************************************************************************)
MaxObjs == 8        \* SpecChain: units on the heap (5 leaves + pipelines)
MaxOps == 2         \* Spec: construction steps that build the unit under call
MaxBatch == 2       \* inputs of one runBatch call
MaxBatchUnit == 1   \* units (steps and pipelines) of a unit Action.runBatch is called on
MaxChunks == 2      \* text chunks the backend emits in one streamed generation
MaxOverlapUnit == 2 \* units (steps and pipelines) of a unit called twice at once
MaxLLMChunks == 1   \* SpecLLM, SpecStreams: text chunks of one streamed generation

VARIABLES
    objs,       \* heap of units: objs[i] = [kind, steps]
    arrs,       \* heap of step arrays: arrs[a] = sequence of unit ids
    lastOp,     \* SpecChain: the construction call that was made last
    cur,        \* Spec: the unit the caller invokes
    call,       \* Spec: the public call the caller made
    stacks,     \* stacks[p]: the frames of async call chain p (top is last)
    settled,    \* settled[p]: the settlement of call chain p's promise
    trace,      \* trace[p]: what happened in call chain p, in order
    notified,   \* what the lifecycle observers handed in callbacks received
    chunks,     \* the chunks the consumer of the stream received
    llm,        \* the fields of the LlamaCppLLM instance
    parserCall, \* SpecJson, SpecString: the text handed to the parser's parse, and the outcome
    promptCall, \* SpecPrompt: a TemplatePrompt, the values handed to render, and the outcome
    imap        \* SpecImap: a fetchLatest call, its fetch and the promise of fetchMessages

vars == <<objs, arrs, lastOp, cur, call, stacks, settled, trace, notified, chunks, llm,
          parserCall, promptCall, imap>>

(***************************************************************************)
(* The heap and the constructors.                                          *)
(***************************************************************************)
Leaf(kind) == [kind |-> kind, steps |-> 0]

\* Two units of a subclass that implements _execute, one unit of the base
\* class (whose _execute throws), one LlamaCppLLM, and one unit of a subclass
\* with a _streamOutput of its own.
LeafObjs == <<Leaf("AddAction"), Leaf("AddAction"), Leaf("Action"), Leaf("LlamaCppLLM"),
              Leaf("StreamingAction")>>

Leaves == 1..Len(LeafObjs)

LeafHeap == [objs |-> LeafObjs, arrs |-> <<>>, res |-> 0]

IsPipeline(h, u) == h.objs[u].kind = "ActionPipeline"

StepsOf(h, u) == h.arrs[h.objs[u].steps]

\* An array literal [...] .
AllocArr(h, elems) == [h EXCEPT !.arrs = Append(h.arrs, elems), !.res = Len(h.arrs) + 1]

\* new ActionPipeline(steps): the instance keeps the array it was handed.
NewActionPipeline(h, arr) ==
    [h EXCEPT !.objs = Append(h.objs, [kind |-> "ActionPipeline", steps |-> arr]),
              !.res = Len(h.objs) + 1]

\* A chain that appends the steps of other when other is a pipeline.
ActionChainFlat(h, this, other) ==
    LET h1 == AllocArr(h, <<this>> \o (IF IsPipeline(h, other) THEN StepsOf(h, other)
                                       ELSE <<other>>))
    IN  NewActionPipeline(h1, h1.res)

\* Action.chain: new ActionPipeline([this, other]).
ActionChain(h, this, other) ==
    LET h1 == AllocArr(h, <<this, other>>)
    IN  NewActionPipeline(h1, h1.res)

\* A chain of a pipeline that pushes other onto the receiver's own step array
\* and hands that array to the new pipeline.
PipelineChainInPlace(h, this, other) ==
    NewActionPipeline([h EXCEPT !.arrs[h.objs[this].steps] = Append(@, other)],
                      h.objs[this].steps)

\* A chain of a pipeline that nests the receiver as one step.
PipelineChainNested(h, this, other) ==
    LET h1 == AllocArr(h, <<this, other>>)
    IN  NewActionPipeline(h1, h1.res)

\* ActionPipeline.chain: new ActionPipeline([...this.steps, other]).
PipelineChain(h, this, other) ==
    LET h1 == AllocArr(h, StepsOf(h, this) \o <<other>>)
    IN  NewActionPipeline(h1, h1.res)

\* u.chain(other), dispatched on the class of u.
Chain(h, this, other) ==
    IF IsPipeline(h, this) THEN PipelineChain(h, this, other)
    ELSE ActionChain(h, this, other)

\* The number of units in the tree of u (u, its steps, their steps, ...).
RECURSIVE UnitSize(_, _)
RECURSIVE SumSizes(_, _)
UnitSize(h, u) ==
    IF IsPipeline(h, u) THEN 1 + SumSizes(h, StepsOf(h, u)) ELSE 1

SumSizes(h, s) ==
    IF s = <<>> THEN 0 ELSE UnitSize(h, Head(s)) + SumSizes(h, Tail(s))

\* The steps of u with every nested pipeline replaced by its steps.
RECURSIVE FlatSteps(_, _)
RECURSIVE FlatAll(_, _)
FlatSteps(h, u) ==
    IF IsPipeline(h, u) THEN FlatAll(h, StepsOf(h, u)) ELSE <<u>>

FlatAll(h, s) ==
    IF s = <<>> THEN <<>> ELSE FlatSteps(h, Head(s)) \o FlatAll(h, Tail(s))

Heap == [objs |-> objs, arrs |-> arrs, res |-> 0]

NoOp == [op |-> "none", this |-> 0, other |-> 0, res |-> 0, before |-> LeafHeap]

(***************************************************************************)
(* Values, errors and settlements.                                         *)
(***************************************************************************)
Str(text) == [type |-> "string", text |-> text, items |-> <<>>]

AIMessage(text) == [type |-> "AIMessage", text |-> text, items |-> <<>>]

Arr(items) == [type |-> "array", text |-> <<>>, items |-> items]

NoVal == Str(<<>>)

\* An Error object: its message and the place (path of the call) that created it.
Err(msg, at) == [msg |-> msg, at |-> at]

NoErr == Err("", <<>>)

NoRet == [set |-> FALSE, ok |-> FALSE, v |-> NoVal, e |-> NoErr]

OkRet(v) == [set |-> TRUE, ok |-> TRUE, v |-> v, e |-> NoErr]

ErrRet(e) == [set |-> TRUE, ok |-> FALSE, v |-> NoVal, e |-> e]

\* `${input}` in a template literal.
ToStr(v) == IF v.type = "string" THEN v.text ELSE <<"[object Object]">>

InTok == <<"x1", "x2", "x3", "x4">>

AddTok == <<"+1", "+2", "+3", "+4">>

ChunkTok == <<"c1", "c2", "c3", "c4">>

OtherChunkTok == <<"d1", "d2", "d3", "d4">>

\* The input of the caller's run and streamOutput calls.
In0 == Str(<<"x0">>)

\* The inputs of the caller's runBatch call.
BatchInputs(n) == [i \in 1..n |-> Str(<<InTok[i]>>)]

\* The run context of a call.
Cfg(callbacks, clearHistory) == [callbacks |-> callbacks, clearHistory |-> clearHistory]

\* Observer 1 returns normally from its handlers, observer 2 throws from them.
CallbackChoices == {<<>>, <<1, 2>>}

ObserverThrows(o) == o = 2

\* No call of a parser.
NoError == [name |-> "", field |-> <<>>, expected |-> "", actual |-> ""]

NoResult == [ok |-> FALSE, v |-> <<>>, llmOutput |-> <<>>, originalError |-> NoError]

\* new JsonOutputParser(): options.schema is undefined.
NoSchema == [given |-> FALSE, entries |-> <<>>]

NoParserCall == [schema |-> NoSchema, stripMarkdown |-> TRUE, text |-> <<>>, done |-> FALSE,
                 extracted |-> <<>>, repaired |-> <<>>, result |-> NoResult]

\* No prompt: nothing constructed, nothing rendered.
NoPromptCall ==
    [pc |-> "none", template |-> <<>>, explicit |-> FALSE, option |-> <<>>,
     inputVariables |-> <<>>,
     partialVariables |-> <<>>, values |-> <<>>,
     result |-> [ok |-> FALSE, text |-> <<>>, message |-> <<>>]]

\* No fetchLatest call: nothing searched, nothing fetched.
NoPromise == [state |-> "pending", value |-> <<>>]

NoImap ==
    [pc |-> "none", inbox |-> <<>>, limit |-> 0, last |-> <<>>, fetched |-> FALSE,
     current |-> 0, fetchEnded |-> FALSE, fetchError |-> FALSE, env |-> <<>>,
     parts |-> <<>>, messages |-> <<>>, pending |-> 0, ended |-> FALSE,
     promise |-> NoPromise]

(***************************************************************************)
(* Frames of the async call stacks.                                        *)
(***************************************************************************)
Frame(t, u, rid, pc, input, cfg) ==
    [t |-> t, u |-> u, rid |-> rid, pc |-> pc, input |-> input, cfg |-> cfg,
     idx |-> 0, n |-> 0, sid |-> 0, model |-> 0, sys |-> <<>>, acc |-> NoVal, ret |-> NoRet]

Ev(e, u, rid, v, err) == [e |-> e, u |-> u, rid |-> rid, v |-> v, err |-> err]

Top(stack) == stack[Len(stack)]

Pop(stack) == SubSeq(stack, 1, Len(stack) - 1)

SetTop(stack, f) == [stack EXCEPT ![Len(stack)] = f]

Procs == 0..MaxBatch

\* The part of the state one call chain works on.
St(p) == [stack |-> stacks[p], trace |-> trace[p], notified |-> notified]

(***************************************************************************)
(* CallbackManager: the three handlers have empty bodies.  Each returns    *)
(* whether it threw, the error, and the notifications the observers got.  *)
(***************************************************************************)
Handled(threw, e, notes) == [threw |-> threw, e |-> e, notes |-> notes]

Note(obs, ev, u, rid, v, err) == [obs |-> obs, ev |-> ev, u |-> u, rid |-> rid, v |-> v, err |-> err]

HandleStart(callbacks, u, rid, input) == Handled(FALSE, NoErr, <<>>)

\* A handleEnd that calls the observers in order; an observer that throws
\* makes handleEnd throw.
HandleEndNotifying(callbacks, u, rid, output) ==
    LET throwers == {i \in 1..Len(callbacks) : ObserverThrows(callbacks[i])}
        last     == IF throwers = {} THEN Len(callbacks)
                    ELSE CHOOSE i \in throwers : \A j \in throwers : i <= j
    IN  Handled(throwers # {}, Err("observer failed", rid),
                [i \in 1..last |-> Note(callbacks[i], "end", u, rid, output, NoErr)])

HandleEnd(callbacks, u, rid, output) == Handled(FALSE, NoErr, <<>>)

HandleError(callbacks, u, rid, error) == Handled(FALSE, NoErr, <<>>)

(***************************************************************************)
(* Action.run                                                              *)
(***************************************************************************)
\* x.run(input, config) up to its first await: handleStart has been called.
RunCall(st, u, rid, input, cfg) ==
    LET hs == HandleStart(cfg.callbacks, u, rid, input)
        f  == Frame("run", u, rid, "started", input, cfg)
    IN  [stack |-> Append(st.stack,
                          IF hs.threw THEN [f EXCEPT !.pc = "startFailed", !.ret = ErrRet(hs.e)]
                          ELSE f),
         trace |-> Append(st.trace, Ev("handleStart", u, rid, input, NoErr)),
         notified |-> st.notified \o hs.notes]

\* throw error, at the end of the catch block of run.
Rethrow(error, rid) == error

\* What run does once _execute has settled (f.ret): handleEnd and return, or
\* the catch block: handleError and rethrow.
RunOutcome(f) ==
    LET endR   == IF f.ret.ok THEN HandleEnd(f.cfg.callbacks, f.u, f.rid, f.ret.v)
                  ELSE Handled(FALSE, NoErr, <<>>)
        caught == ~f.ret.ok \/ endR.threw
        error  == IF f.ret.ok THEN endR.e ELSE f.ret.e
        errR   == IF caught THEN HandleError(f.cfg.callbacks, f.u, f.rid, error)
                  ELSE Handled(FALSE, NoErr, <<>>)
    IN  [ret |-> IF ~caught THEN OkRet(f.ret.v)
                 ELSE IF errR.threw THEN ErrRet(errR.e)
                 ELSE ErrRet(Rethrow(error, f.rid)),
         events |-> (IF f.pc = "startFailed" THEN <<>>
                     ELSE IF f.ret.ok THEN <<Ev("executeResolved", f.u, f.rid, f.ret.v, NoErr),
                                             Ev("handleEnd", f.u, f.rid, f.ret.v, NoErr)>>
                     ELSE <<Ev("executeThrew", f.u, f.rid, NoVal, f.ret.e)>>)
                    \o (IF caught THEN <<Ev("handleError", f.u, f.rid, NoVal, error)>> ELSE <<>>),
         notes |-> endR.notes \o errR.notes]

\* A Promise.all that collects the values in the order of fulfilment.
PromiseAllByCompletion(f, i, ret) ==
    IF f.ret.set THEN f
    ELSE IF ~ret.ok THEN [f EXCEPT !.ret = ErrRet(ret.e)]
    ELSE LET k     == f.idx + 1
             items == [f.acc.items EXCEPT ![k] = ret.v]
         IN  [f EXCEPT !.acc = Arr(items), !.idx = k,
                       !.ret = IF k = f.n THEN OkRet(Arr(items)) ELSE NoRet]

\* A Promise.all that rejects with the error of the promise that rejected last.
PromiseAllLastError(f, i, ret) ==
    IF ~ret.ok THEN [f EXCEPT !.ret = ErrRet(ret.e)]
    ELSE IF f.ret.set THEN f
    ELSE LET items == [f.acc.items EXCEPT ![i] = ret.v]
             k     == f.idx + 1
         IN  [f EXCEPT !.acc = Arr(items), !.idx = k,
                       !.ret = IF k = f.n THEN OkRet(Arr(items)) ELSE NoRet]

\* Promise.all in Action.runBatch: the reaction to the settlement of the i-th promise.
PromiseAll(f, i, ret) ==
    IF f.ret.set THEN f
    ELSE IF ~ret.ok THEN [f EXCEPT !.ret = ErrRet(ret.e)]
    ELSE LET items == [f.acc.items EXCEPT ![i] = ret.v]
             k     == f.idx + 1
         IN  [f EXCEPT !.acc = Arr(items), !.idx = k,
                       !.ret = IF k = f.n THEN OkRet(Arr(items)) ELSE NoRet]

\* The top frame of call chain p finishes with ret: its awaiter gets ret, or,
\* when it was the last frame, the promise of the chain settles.
Return(p, st, ret) ==
    LET rest == Pop(st.stack)
    IN  /\ notified' = st.notified
        /\ IF rest # <<>>
           THEN /\ stacks' = [stacks EXCEPT ![p] = SetTop(rest, [Top(rest) EXCEPT !.ret = ret])]
                /\ trace' = [trace EXCEPT ![p] = st.trace]
                /\ settled' = settled
           ELSE /\ settled' = [settled EXCEPT ![p] = ret]
                /\ IF p = 0
                   THEN /\ stacks' = [stacks EXCEPT ![p] = <<>>]
                        /\ trace' = [trace EXCEPT ![p] = st.trace]
                   ELSE /\ stacks' = [stacks EXCEPT ![p] = <<>>,
                                                    ![0] = IF @ = <<>> THEN @
                                                           ELSE SetTop(@, PromiseAll(Top(@), p, ret))]
                        /\ trace' = [trace EXCEPT ![p] = st.trace,
                                                  ![0] = Append(@, Ev(IF ret.ok THEN "fulfilled" ELSE "rejected",
                                                                      cur, <<p>>, ret.v, ret.e))]

Commit(p, st) ==
    /\ stacks' = [stacks EXCEPT ![p] = st.stack]
    /\ trace' = [trace EXCEPT ![p] = st.trace]
    /\ notified' = st.notified

\* _execute of the subclass of the tests: `${input}+${this.value}`.
AddExecute(u, input) == OkRet(Str(ToStr(input) \o <<AddTok[u]>>))

\* _execute of the streaming subclass of the tests: `streamed: ${input}`.
StreamingExecute(input) == OkRet(Str(<<"streamed: ">> \o ToStr(input)))

\* Action._execute: throw new Error(`${this.name} must implement _call() method`).
ActionExecute(u, rid) == ErrRet(Err("must implement _call() method", rid))

\* run, after the await of handleStart: const output = await this._execute(input, config).
RunExecute(p) ==
    /\ stacks[p] # <<>>
    /\ Top(stacks[p]).t = "run"
    /\ Top(stacks[p]).pc = "started"
    /\ LET f    == Top(stacks[p])
           kind == objs[f.u].kind
           f1   == [f EXCEPT !.pc = "executing"]
           base == SetTop(stacks[p], f1)
           new  == CASE kind = "AddAction" ->
                          SetTop(stacks[p], [f1 EXCEPT !.ret = AddExecute(f.u, f.input)])
                     [] kind = "Action" ->
                          SetTop(stacks[p], [f1 EXCEPT !.ret = ActionExecute(f.u, f.rid)])
                     [] kind = "StreamingAction" ->
                          SetTop(stacks[p], [f1 EXCEPT !.ret = StreamingExecute(f.input)])
                     [] kind = "ActionPipeline" ->
                          Append(base, [Frame("pipe", f.u, f.rid, "loop", f.input, f.cfg)
                                          EXCEPT !.ret = OkRet(f.input)])
                     [] kind = "LlamaCppLLM" ->
                          Append(base, Frame("llmexec", f.u, f.rid, "init", f.input, f.cfg))
       IN  /\ stacks' = [stacks EXCEPT ![p] = new]
           /\ trace' = [trace EXCEPT ![p] = Append(@, Ev("execute", f.u, f.rid, f.input, NoErr))]
    /\ UNCHANGED <<imap, promptCall, parserCall, objs, arrs, lastOp, cur, call, settled, notified, chunks, llm>>

\* A run that calls _execute a second time when the first call threw.
RunRetriesOnce(f) == f.pc = "executing" /\ ~f.ret.ok /\ f.n = 0

\* Whether run calls _execute again once it has settled: the try block calls
\* it once and the catch block rethrows.
RunRetries(f) == FALSE

\* run, after the await of _execute.
RunFinish(p) ==
    /\ stacks[p] # <<>>
    /\ Top(stacks[p]).t = "run"
    /\ Top(stacks[p]).pc \in {"executing", "startFailed"}
    /\ Top(stacks[p]).ret.set
    /\ LET f == Top(stacks[p])
           o == RunOutcome(f)
       IN  IF RunRetries(f)
           THEN /\ Commit(p, [St(p) EXCEPT
                                !.stack = SetTop(@, [f EXCEPT !.pc = "started", !.ret = NoRet, !.n = 1]),
                                !.trace = Append(@, Ev("executeThrew", f.u, f.rid, NoVal, f.ret.e))])
                /\ settled' = settled
           ELSE Return(p, [stack |-> stacks[p], trace |-> trace[p] \o o.events,
                           notified |-> notified \o o.notes], o.ret)
    /\ UNCHANGED <<imap, promptCall, parserCall, objs, arrs, lastOp, cur, call, chunks, llm>>

(***************************************************************************)
(* ActionPipeline._execute                                                 *)
(***************************************************************************)
\* A pipeline that hands every step the pipeline's input.
PipelineStepInputSame(input, output) == input

\* output = await step.run(output, config): what the next step is handed.
PipelineStepInput(input, output) == output

\* A pipeline that iterates its steps from the last to the first.
PipelineNextIndexReversed(idx, len) == len - idx

\* for (const step of this.steps): the index of the step after the idx-th.
PipelineNextIndex(idx, len) == idx + 1

\* A pipeline that catches the error of a step and goes on with the loop.
PipelineAbortsNever(ret) == FALSE

\* await step.run(...) throws out of the loop and out of _execute when the step rejected.
PipelineAborts(ret) == ~ret.ok

\* One turn of the loop: the awaited step has settled (f.ret), or the loop begins.
PipelineStep(p) ==
    /\ stacks[p] # <<>>
    /\ Top(stacks[p]).t = "pipe"
    /\ Top(stacks[p]).ret.set
    /\ LET f     == Top(stacks[p])
           steps == arrs[objs[f.u].steps]
           k     == PipelineNextIndex(f.idx, Len(steps))
       IN  IF PipelineAborts(f.ret)
           THEN Return(p, St(p), f.ret)
           ELSE IF f.idx < Len(steps)
           THEN /\ Commit(p, RunCall([St(p) EXCEPT !.stack = SetTop(@, [f EXCEPT !.idx = f.idx + 1,
                                                                                 !.acc = f.ret.v,
                                                                                 !.ret = NoRet])],
                                     steps[k], Append(f.rid, k),
                                     PipelineStepInput(f.input, f.ret.v), f.cfg))
                /\ settled' = settled
           ELSE Return(p, St(p), OkRet(f.ret.v))
    /\ UNCHANGED <<imap, promptCall, parserCall, objs, arrs, lastOp, cur, call, chunks, llm>>

(***************************************************************************)
(* Action.streamOutput and ActionPipeline._streamOutput                    *)
(***************************************************************************)
\* x.streamOutput(input, config), consumed: LlamaCppLLM overrides streamOutput,
\* ActionPipeline overrides _streamOutput, the others run and yield the result.
StreamCall(st, u, rid, input, cfg) ==
    LET kind == objs[u].kind
        st1  == [st EXCEPT !.trace = Append(@, Ev("streamOutput", u, rid, input, NoErr))]
    IN  CASE kind = "LlamaCppLLM" ->
               [st1 EXCEPT !.stack = Append(@, Frame("llmstream", u, rid, "init", input, cfg))]
          [] kind = "ActionPipeline" ->
               [st1 EXCEPT !.stack = Append(@, [Frame("pstream", u, rid, "loop", input, cfg)
                                                  EXCEPT !.ret = OkRet(input)])]
          [] kind = "StreamingAction" ->
               [st1 EXCEPT !.stack = Append(@, Frame("custom", u, rid, "yielding", input, cfg))]
          [] OTHER ->
               RunCall([st1 EXCEPT !.stack = Append(@, Frame("stream", u, rid, "run", input, cfg))],
                       u, rid, input, cfg)

\* A default streamOutput that yields the result twice.
DefaultYieldsTwice(result) == <<result, result>>

\* const result = await this.run(input, config); yield result.
DefaultYields(result) == <<result>>

\* The default streamOutput after its run settled: yield result.
StreamStep(p) ==
    /\ stacks[p] # <<>>
    /\ Top(stacks[p]).t = "stream"
    /\ Top(stacks[p]).ret.set
    /\ LET f   == Top(stacks[p])
           out == DefaultYields(f.ret.v)
       IN  IF f.ret.ok
           THEN /\ chunks' = chunks \o out
                /\ Return(p, [St(p) EXCEPT !.trace = @ \o [i \in 1..Len(out) |->
                                                            Ev("yield", f.u, f.rid, out[i], NoErr)]],
                          OkRet(NoVal))
           ELSE /\ chunks' = chunks
                /\ Return(p, St(p), f.ret)
    /\ UNCHANGED <<imap, promptCall, parserCall, objs, arrs, lastOp, cur, call, llm>>

\* The yields of _streamOutput of the streaming subclass of the tests, in
\* the order of the statements: chunk1, chunk2, then the result of the transform.
CustomYields(input) ==
    <<Str(<<"chunk1: ">> \o ToStr(input)), Str(<<"chunk2: ">> \o ToStr(input)),
      StreamingExecute(input).v>>

\* yield* this._streamOutput(input, config): the k-th value the consumer is
\* handed is the k-th value the generator yields.
DelegateYield(yields, k) == yields[k]

\* streamOutput of a unit with a _streamOutput of its own: the consumer pulls
\* the next chunk, or the generator returns.
CustomStreamStep(p) ==
    /\ stacks[p] # <<>>
    /\ Top(stacks[p]).t = "custom"
    /\ LET f      == Top(stacks[p])
           yields == CustomYields(f.input)
           k      == f.idx + 1
       IN  IF f.idx < Len(yields)
           THEN /\ chunks' = Append(chunks, DelegateYield(yields, k))
                /\ Commit(p, [St(p) EXCEPT !.stack = SetTop(@, [f EXCEPT !.idx = k]),
                                           !.trace = @ \o <<Ev("produced", f.u, f.rid, yields[k], NoErr),
                                                            Ev("yield", f.u, f.rid,
                                                               DelegateYield(yields, k), NoErr)>>])
                /\ settled' = settled
           ELSE /\ chunks' = chunks
                /\ Return(p, St(p), OkRet(NoVal))
    /\ UNCHANGED <<imap, promptCall, parserCall, objs, arrs, lastOp, cur, call, llm>>

\* A pipeline stream that runs every step before it streams the last one.
StreamedRunsAll(len) == len

\* for (let i = 0; i < this.steps.length - 1; i++): the number of steps that are run.
StreamedRuns(len) == len - 1

\* ActionPipeline._streamOutput: one turn of the loop over all steps but the
\* last, then yield* of the last step's streamOutput.
PipelineStreamStep(p) ==
    /\ stacks[p] # <<>>
    /\ Top(stacks[p]).t = "pstream"
    /\ Top(stacks[p]).ret.set
    /\ LET f     == Top(stacks[p])
           steps == arrs[objs[f.u].steps]
           len   == Len(steps)
           k     == f.idx + 1
           f1    == [f EXCEPT !.idx = k, !.acc = f.ret.v, !.ret = NoRet]
       IN  IF ~f.ret.ok THEN Return(p, St(p), f.ret)
           ELSE IF f.pc = "tail" THEN Return(p, St(p), OkRet(NoVal))
           ELSE IF f.idx < StreamedRuns(len)
           THEN /\ Commit(p, RunCall([St(p) EXCEPT !.stack = SetTop(@, f1)],
                                     steps[k], Append(f.rid, k), f.ret.v, f.cfg))
                /\ settled' = settled
           ELSE IF len = 0
           THEN Return(p, St(p), ErrRet(Err("TypeError: Cannot read properties of undefined", f.rid)))
           ELSE /\ Commit(p, StreamCall([St(p) EXCEPT !.stack = SetTop(@, [f1 EXCEPT !.pc = "tail"])],
                                        steps[len], Append(f.rid, len), f.ret.v, f.cfg))
                /\ settled' = settled
    /\ UNCHANGED <<imap, promptCall, parserCall, objs, arrs, lastOp, cur, call, chunks, llm>>

(***************************************************************************)
(* LlamaCppLLM                                                             *)
(***************************************************************************)
NoBuffer == [defined |-> FALSE, items |-> <<>>]

\* new LlamaChatSession(sessionConfig): the context whose sequence the session
\* works on, the chat history and system prompt the session holds, and the
\* number of its generations in flight.
NewSession == [context |-> 0, epoch |-> 0, history |-> <<>>, systemPrompt |-> <<>>, busy |-> 0]

\* The fields of the instance after construction: _initialized, _chatSession
\* (sid), _model, _context (0 for null, an index of sessions, models and
\* contexts otherwise), _currentStreamChunks; and the sessions, models and
\* contexts the backend has created for the instance so far.
NewLLM == [initialized |-> FALSE, sid |-> 0, sessions |-> <<>>, buffer |-> NoBuffer,
           model |-> 0, context |-> 0, models |-> <<>>, contexts |-> <<>>, disposes |-> 0]

Message(type, content) == [type |-> type, content |-> content]

\* messages = [new HumanMessage(input)] for a string, the array itself otherwise.
InputMessages(input) ==
    IF input.type = "string" THEN <<Message("human", input.text)>> ELSE input.items

\* _messagesToChatHistory
ChatHistoryItem(msg) ==
    CASE msg.type = "system" -> [type |-> "system", text |-> msg.content]
      [] msg.type = "human"  -> [type |-> "user", text |-> msg.content]
      [] msg.type = "ai"     -> [type |-> "model", text |-> msg.content]
      [] msg.type = "tool"   -> [type |-> "system", text |-> <<"Tool Result: ">> \o msg.content]
      [] OTHER               -> [type |-> "user", text |-> msg.content]

MessagesToChatHistory(messages) == [i \in 1..Len(messages) |-> ChatHistoryItem(messages[i])]

\* systemMessages.length > 0 ? systemMessages[0].content : ''
SystemPromptOf(messages) ==
    LET sys == SelectSeq(messages, LAMBDA m : m.type = "system")
    IN  IF Len(sys) > 0 THEN sys[1].content ELSE <<>>

\* The text the backend generates from the chat history the session holds
\* when prompt is called: a stand-in that echoes the last item.
BackendResponse(history) ==
    IF history = <<>> THEN <<"ai:">> ELSE <<"ai:">> \o history[Len(history)].text

\* if (this._initialized) return
InitializeSkips(l) == l.initialized

\* await this._initialize(), up to await getLlama(): the flag is read once,
\* before the first await.
LLMInitialize(p) ==
    /\ stacks[p] # <<>>
    /\ Top(stacks[p]).t \in {"llmexec", "llmstream"}
    /\ Top(stacks[p]).pc = "init"
    /\ stacks' = [stacks EXCEPT ![p] = SetTop(@, [Top(@) EXCEPT
                      !.pc = IF InitializeSkips(llm) THEN "ready" ELSE "loading"])]
    /\ UNCHANGED <<imap, promptCall, parserCall, objs, arrs, lastOp, cur, call, settled, trace, notified, chunks, llm>>

\* _initialize: this._model = await this._llama.loadModel(...), and the call
\* of this._model.createContext(...); or getLlama or loadModel fails.
LLMModelLoaded(p) ==
    /\ stacks[p] # <<>>
    /\ Top(stacks[p]).t \in {"llmexec", "llmstream"}
    /\ Top(stacks[p]).pc = "loading"
    /\ \E ok \in BOOLEAN :
          IF ok
          THEN /\ llm' = [llm EXCEPT !.models = Append(@, [disposed |-> FALSE, epoch |-> llm.disposes]),
                                      !.model = Len(llm.models) + 1]
               /\ stacks' = [stacks EXCEPT ![p] = SetTop(@, [Top(@) EXCEPT
                                 !.pc = "creating", !.model = Len(llm.models) + 1])]
               /\ UNCHANGED <<settled, trace, notified>>
          ELSE /\ llm' = llm
               /\ Return(p, St(p), ErrRet(Err("Failed to initialize model", Top(stacks[p]).rid)))
    /\ UNCHANGED <<imap, promptCall, parserCall, objs, arrs, lastOp, cur, call, chunks>>

\* The model a context is created on: the one this call of _initialize
\* loaded (this._model is read right after it was assigned).
ModelOf(l, f) == IF f.pc = "creating" THEN f.model ELSE Len(l.models) + 1

\* _initialize: this._context = await this._model.createContext(...), the
\* session is created on the context and _initialized is set; or createContext
\* fails (a context cannot be created on a disposed model).  When no other
\* call reads _model in between, loadModel and createContext are one step.
LLMLoaded(p) ==
    /\ stacks[p] # <<>>
    /\ Top(stacks[p]).t \in {"llmexec", "llmstream"}
    /\ Top(stacks[p]).pc \in {"loading", "creating"}
    /\ LET f      == Top(stacks[p])
           l      == IF f.pc = "creating" THEN llm
                     ELSE [llm EXCEPT !.models = Append(@, [disposed |-> FALSE, epoch |-> llm.disposes]),
                                      !.model = Len(llm.models) + 1]
           loaded == [l EXCEPT !.initialized = TRUE,
                               !.contexts = Append(@, [model |-> ModelOf(llm, f), disposed |-> FALSE]),
                               !.context = Len(llm.contexts) + 1,
                               !.sessions = Append(@, [NewSession EXCEPT
                                                         !.context = Len(llm.contexts) + 1,
                                                         !.epoch = llm.disposes]),
                               !.sid = Len(llm.sessions) + 1]
       IN  \E ok \in {b \in BOOLEAN : b => ~l.models[ModelOf(llm, f)].disposed} :
              IF ok
              THEN /\ llm' = loaded
                   /\ stacks' = [stacks EXCEPT ![p] = SetTop(@, [f EXCEPT !.pc = "ready"])]
                   /\ UNCHANGED <<settled, trace, notified>>
              ELSE /\ llm' = llm
                   /\ Return(p, St(p), ErrRet(Err("Failed to initialize model", f.rid)))
    /\ UNCHANGED <<imap, promptCall, parserCall, objs, arrs, lastOp, cur, call, chunks>>

\* const chatHistory = this._messagesToChatHistory(messages): every message
\* of the input is converted.
ChatHistoryOf(messages) == MessagesToChatHistory(messages)

\* _execute and streamOutput between _initialize and the call of prompt: the
\* session check, clearHistory, the input check, setChatHistory, systemPrompt.
LLMPrepare(f) ==
    LET s        == llm.sid
        cleared  == IF f.cfg.clearHistory /\ s # 0
                    THEN [llm EXCEPT !.sessions[s].history = <<>>] ELSE llm
        messages == InputMessages(f.input)
    IN  IF s = 0
        THEN [ok |-> FALSE, llm |-> llm, e |-> Err("Chat session not initialized", f.rid)]
        ELSE IF f.input.type \notin {"string", "array"}
        THEN [ok |-> FALSE, llm |-> cleared,
              e |-> Err("Input must be a string or array of messages", f.rid)]
        ELSE [ok |-> TRUE,
              llm |-> [cleared EXCEPT !.sessions[s].history = ChatHistoryOf(messages),
                                      !.sessions[s].systemPrompt = SystemPromptOf(messages)],
              e |-> NoErr]

\* The error the backend rejects a prompt with; it is created in the backend,
\* in no call of the core.
BackendError == Err("backend error", <<-1>>)

\* catch (error) { throw new Error(`Generation failed: ${err.message}`) }
GenerationFailed(err, rid) == Err("Generation failed: backend error", rid)

\* catch (error) { throw new Error(`Streaming failed: ${err.message}`) }
StreamingFailed(err, rid) == Err("Streaming failed: backend error", rid)

\* The context and the model of session s are there: neither was disposed.
SessionUsable(l, s) ==
    /\ ~l.contexts[l.sessions[s].context].disposed
    /\ ~l.models[l.contexts[l.sessions[s].context].model].disposed

\* The session begins a generation: it reads the chat history and the system
\* prompt it holds at that moment.
GenerationStart(f, l, s) ==
    [frame |-> [f EXCEPT !.pc = "generating", !.sid = s, !.acc = Arr(l.sessions[s].history),
                         !.sys = l.sessions[s].systemPrompt],
     llm   |-> [l EXCEPT !.sessions[s].busy = @ + 1],
     event |-> Ev("generationStart", f.u, f.rid, Arr(l.sessions[s].history), NoErr)]

\* _execute up to await this._chatSession.prompt('', promptOptions).  When
\* the session has no generation in flight the backend begins at once; when
\* it has one, the backend begins at once as well or defers the generation
\* until the session is free.
LLMPrompt(p) ==
    /\ stacks[p] # <<>>
    /\ Top(stacks[p]).t = "llmexec"
    /\ Top(stacks[p]).pc = "ready"
    /\ LET f    == Top(stacks[p])
           prep == LLMPrepare(f)
           s    == llm.sid
       IN  IF prep.ok
           THEN \E defer \in {d \in BOOLEAN : d => prep.llm.sessions[s].busy > 0} :
                   LET g == GenerationStart(f, prep.llm, s)
                   IN  /\ llm' = IF defer THEN prep.llm ELSE g.llm
                       /\ stacks' = [stacks EXCEPT ![p] = SetTop(@,
                                         IF defer THEN [f EXCEPT !.pc = "deferred", !.sid = s]
                                         ELSE g.frame)]
                       /\ trace' = [trace EXCEPT ![p] = IF defer THEN @ ELSE Append(@, g.event)]
                       /\ UNCHANGED <<settled, notified>>
           ELSE /\ llm' = prep.llm
                /\ Return(p, St(p), ErrRet(prep.e))
    /\ UNCHANGED <<imap, promptCall, parserCall, objs, arrs, lastOp, cur, call, chunks>>

\* The session is free again: the backend begins a deferred generation.
LLMDeferredStart(p) ==
    /\ stacks[p] # <<>>
    /\ Top(stacks[p]).t = "llmexec"
    /\ Top(stacks[p]).pc = "deferred"
    /\ llm.sessions[Top(stacks[p]).sid].busy = 0
    /\ LET g == GenerationStart(Top(stacks[p]), llm, Top(stacks[p]).sid)
       IN  /\ llm' = g.llm
           /\ stacks' = [stacks EXCEPT ![p] = SetTop(@, g.frame)]
           /\ trace' = [trace EXCEPT ![p] = Append(@, g.event)]
    /\ UNCHANGED <<imap, promptCall, parserCall, objs, arrs, lastOp, cur, call, settled, notified, chunks>>

\* The backend settles the prompt: the session keeps the conversation with
\* the response added to it, and _execute returns new AIMessage(response);
\* or the catch block: throw new Error(`Generation failed: ${err.message}`).
\* A generation on a disposed context or model does not succeed.
LLMGenerated(p) ==
    /\ stacks[p] # <<>>
    /\ Top(stacks[p]).t = "llmexec"
    /\ Top(stacks[p]).pc = "generating"
    /\ \E ok \in {b \in BOOLEAN : b => SessionUsable(llm, Top(stacks[p]).sid)} :
          LET f        == Top(stacks[p])
              response == BackendResponse(f.acc.items)
          IN  /\ llm' = [llm EXCEPT !.sessions[f.sid].busy = @ - 1,
                                    !.sessions[f.sid].history =
                                        IF ok THEN Append(f.acc.items, [type |-> "model", text |-> response])
                                        ELSE @]
              /\ IF ok THEN Return(p, St(p), OkRet(AIMessage(response)))
                 ELSE Return(p, [St(p) EXCEPT !.trace = Append(@, Ev("backendRejected", f.u, f.rid,
                                                                    NoVal, BackendError))],
                             ErrRet(GenerationFailed(BackendError, f.rid)))
    /\ UNCHANGED <<imap, promptCall, parserCall, objs, arrs, lastOp, cur, call, chunks>>

\* A batch that hands every item the config of the batch as it is.
BatchItemConfigAsGiven(config) == config

\* { ...config, clearHistory: true }
BatchItemConfig(config) == Cfg(config.callbacks, TRUE)

\* LlamaCppLLM.runBatch: one turn of the loop,
\* const result = await this._execute(input, { ...config, clearHistory: true }).
LLMBatchStep(p) ==
    /\ stacks[p] # <<>>
    /\ Top(stacks[p]).t = "llmbatch"
    /\ Top(stacks[p]).pc = "begin" \/ Top(stacks[p]).ret.set
    /\ LET f     == Top(stacks[p])
           items == IF f.pc = "begin" THEN <<>> ELSE Append(f.acc.items, f.ret.v)
           k     == Len(items) + 1
           f1    == [f EXCEPT !.pc = "await", !.acc = Arr(items), !.ret = NoRet]
           input == BatchInputs(f.n)[k]
       IN  IF f.pc = "await" /\ ~f.ret.ok THEN Return(p, St(p), f.ret)
           ELSE IF Len(items) < f.n
           THEN /\ stacks' = [stacks EXCEPT ![p] =
                                 Append(SetTop(@, f1),
                                        Frame("llmexec", f.u, Append(f.rid, k), "init", input,
                                              BatchItemConfig(f.cfg)))]
                /\ trace' = [trace EXCEPT ![p] =
                                Append(@, Ev("execute", f.u, Append(f.rid, k), input, NoErr))]
                /\ UNCHANGED <<settled, notified>>
           ELSE Return(p, St(p), OkRet(Arr(items)))
    /\ UNCHANGED <<imap, promptCall, parserCall, objs, arrs, lastOp, cur, call, chunks, llm>>

\* The generation of a stream frame has begun in the backend.
Generating(f) == f.acc.type = "array"

\* LlamaCppLLM.streamOutput from the session check to the call of prompt with
\* onTextChunk: this._currentStreamChunks = [], then the generation begins at
\* once or, on a session with a generation in flight, at once or deferred.
LLMStreamStart(p) ==
    /\ stacks[p] # <<>>
    /\ Top(stacks[p]).t = "llmstream"
    /\ Top(stacks[p]).pc = "ready"
    /\ LET f    == Top(stacks[p])
           prep == LLMPrepare(f)
           s    == llm.sid
           l    == [prep.llm EXCEPT !.buffer = [defined |-> TRUE, items |-> <<>>]]
       IN  IF prep.ok
           THEN \E defer \in {d \in BOOLEAN : d => prep.llm.sessions[s].busy > 0} :
                   LET g == GenerationStart(f, l, s)
                   IN  /\ llm' = IF defer THEN l ELSE g.llm
                       /\ stacks' = [stacks EXCEPT ![p] = SetTop(@,
                                         IF defer THEN [f EXCEPT !.pc = "polling", !.sid = s]
                                         ELSE [g.frame EXCEPT !.pc = "polling"])]
                       /\ trace' = [trace EXCEPT ![p] = IF defer THEN @ ELSE Append(@, g.event)]
                       /\ UNCHANGED <<settled, notified>>
           ELSE /\ llm' = prep.llm
                /\ Return(p, St(p), ErrRet(prep.e))
    /\ UNCHANGED <<imap, promptCall, parserCall, objs, arrs, lastOp, cur, call, chunks>>

\* The session is free again: the backend begins a deferred streamed generation.
LLMStreamDeferredStart(p) ==
    /\ stacks[p] # <<>>
    /\ Top(stacks[p]).t = "llmstream"
    /\ Top(stacks[p]).pc = "polling"
    /\ ~Generating(Top(stacks[p]))
    /\ llm.sessions[Top(stacks[p]).sid].busy = 0
    /\ LET g == GenerationStart(Top(stacks[p]), llm, Top(stacks[p]).sid)
       IN  /\ llm' = g.llm
           /\ stacks' = [stacks EXCEPT ![p] = SetTop(@, [g.frame EXCEPT !.pc = "polling"])]
           /\ trace' = [trace EXCEPT ![p] = Append(@, g.event)]
    /\ UNCHANGED <<imap, promptCall, parserCall, objs, arrs, lastOp, cur, call, settled, notified, chunks>>

\* The k-th chunk the backend emits in the generation of the call with path
\* rid: the generations of two calls made at once emit different texts.
ChunkText(rid, k) == IF rid[1] = 2 THEN OtherChunkTok[k] ELSE ChunkTok[k]

\* The number of chunks the backend emits at most in one generation.
ChunkLimit == IF call.m = "llm" THEN MaxLLMChunks ELSE MaxChunks

\* onTextChunk: this._currentStreamChunks = this._currentStreamChunks || []; push(chunk).
LLMChunk(p) ==
    /\ stacks[p] # <<>>
    /\ Top(stacks[p]).t = "llmstream"
    /\ Top(stacks[p]).pc = "polling"
    /\ Generating(Top(stacks[p]))
    /\ ~Top(stacks[p]).ret.set
    /\ Top(stacks[p]).n < ChunkLimit
    /\ LET f     == Top(stacks[p])
           chunk == ChunkText(f.rid, f.n + 1)
       IN  /\ llm' = [llm EXCEPT !.buffer = [defined |-> TRUE,
                                             items |-> Append(llm.buffer.items, chunk)]]
           /\ stacks' = [stacks EXCEPT ![p] = SetTop(@, [f EXCEPT !.n = @ + 1])]
           /\ trace' = [trace EXCEPT ![p] = Append(@, Ev("produced", f.u, f.rid,
                                                         AIMessage(<<chunk>>), NoErr))]
    /\ UNCHANGED <<imap, promptCall, parserCall, objs, arrs, lastOp, cur, call, settled, notified, chunks>>

\* The backend settles responsePromise: the generation is over and, when it
\* resolved, the session keeps the conversation with the response added.
LLMStreamSettle(p) ==
    /\ stacks[p] # <<>>
    /\ Top(stacks[p]).t = "llmstream"
    /\ Top(stacks[p]).pc = "polling"
    /\ Generating(Top(stacks[p]))
    /\ ~Top(stacks[p]).ret.set
    /\ \E ok \in {b \in BOOLEAN : b => SessionUsable(llm, Top(stacks[p]).sid)} :
          LET f        == Top(stacks[p])
              response == BackendResponse(f.acc.items)
          IN  /\ stacks' = [stacks EXCEPT ![p] = SetTop(@, [f EXCEPT
                               !.ret = IF ok THEN OkRet(NoVal) ELSE ErrRet(BackendError)])]
              /\ llm' = [llm EXCEPT !.sessions[f.sid].busy = @ - 1,
                                    !.sessions[f.sid].history =
                                        IF ok THEN Append(f.acc.items, [type |-> "model", text |-> response])
                                        ELSE @]
              /\ trace' = [trace EXCEPT ![p] =
                              IF ok THEN Append(@, Ev("backendResolved", f.u, f.rid, NoVal, NoErr))
                              ELSE Append(@, Ev("backendRejected", f.u, f.rid, NoVal, BackendError))]
    /\ UNCHANGED <<imap, promptCall, parserCall, objs, arrs, lastOp, cur, call, settled, notified, chunks>>

\* while (lastYieldedIndex < this._currentStreamChunks.length) yield ...[lastYieldedIndex++]
NewChunks(buffer, lastYieldedIndex) == SubSeq(buffer, lastYieldedIndex + 1, Len(buffer))

\* A race that the timer wins even when responsePromise has settled.
RaceTimerWins(ret) == "timer"

\* await Promise.race([responsePromise.then(() => true), the 10 ms timer]):
\* a settled responsePromise is there before the timer fires.
Race(ret) == IF ~ret.set THEN "timer" ELSE IF ret.ok THEN "done" ELSE "rejected"

\* One turn of the polling loop: the new chunks are yielded, then the race of
\* responsePromise against the 10 ms timer has an outcome: the timer won and
\* the loop goes on; or the response is there, the remaining chunks are
\* yielded and this._currentStreamChunks is deleted; or the response rejected
\* and the catch block throws at once.  Reading the length of a deleted
\* _currentStreamChunks throws a TypeError into the catch block.
LLMStreamPoll(p) ==
    /\ stacks[p] # <<>>
    /\ Top(stacks[p]).t = "llmstream"
    /\ Top(stacks[p]).pc = "polling"
    /\ LET f     == Top(stacks[p])
           fresh == NewChunks(llm.buffer.items, f.idx)
           out   == [i \in 1..Len(fresh) |-> AIMessage(<<fresh[i]>>)]
           evs   == [i \in 1..Len(fresh) |-> Ev("yield", f.u, f.rid, out[i], NoErr)]
           st    == [St(p) EXCEPT !.trace = @ \o evs]
       IN  IF ~llm.buffer.defined
           THEN /\ Return(p, St(p), ErrRet(Err("Streaming failed: TypeError", f.rid)))
                /\ UNCHANGED <<chunks, llm>>
           ELSE CASE Race(f.ret) = "timer" ->
                       /\ chunks' = chunks \o out
                       /\ Commit(p, [st EXCEPT !.stack = SetTop(@, [f EXCEPT
                                        !.idx = IF fresh = <<>> THEN @ ELSE Len(llm.buffer.items)])])
                       /\ UNCHANGED <<settled, llm>>
                  [] Race(f.ret) = "done" ->
                       /\ chunks' = chunks \o out
                       /\ llm' = [llm EXCEPT !.buffer = NoBuffer]
                       /\ Return(p, st, OkRet(NoVal))
                  [] Race(f.ret) = "rejected" ->
                       /\ UNCHANGED <<chunks, llm>>
                       /\ Return(p, St(p), ErrRet(StreamingFailed(f.ret.e, f.rid)))
    /\ UNCHANGED <<imap, promptCall, parserCall, objs, arrs, lastOp, cur, call>>

(***************************************************************************)
(* The caller: one public call on the unit cur.                            *)
(***************************************************************************)
NoCall == [m |-> "none", n |-> 0, cfg |-> Cfg(<<>>, FALSE)]

Fresh == [stack |-> <<>>, trace |-> <<>>, notified |-> notified]

\* cur.run(In0, {callbacks})
CallRun ==
    /\ call.m = "none"
    /\ \E callbacks \in CallbackChoices :
          /\ call' = [m |-> "run", n |-> 0, cfg |-> Cfg(callbacks, FALSE)]
          /\ Commit(0, RunCall(Fresh, cur, <<0>>, In0, Cfg(callbacks, FALSE)))
    /\ UNCHANGED <<imap, promptCall, parserCall, objs, arrs, lastOp, cur, settled, chunks, llm>>

\* for await (const chunk of cur.streamOutput(In0, {callbacks}))
CallStreamOutput ==
    /\ call.m = "none"
    /\ \E callbacks \in CallbackChoices :
          /\ call' = [m |-> "streamOutput", n |-> 0, cfg |-> Cfg(callbacks, FALSE)]
          /\ Commit(0, StreamCall(Fresh, cur, <<0>>, In0, Cfg(callbacks, FALSE)))
    /\ UNCHANGED <<imap, promptCall, parserCall, objs, arrs, lastOp, cur, settled, chunks, llm>>

\* cur.runBatch(inputs) of Action: Promise.all(inputs.map(input => this.run(input, config))).
\* Every run is called, in input order, before the first of them resumes.
CallRunBatch ==
    /\ call.m = "none"
    /\ objs[cur].kind # "LlamaCppLLM"
    /\ UnitSize(Heap, cur) <= MaxBatchUnit
    /\ \E n \in 0..MaxBatch, callbacks \in CallbackChoices :
          LET cfg    == Cfg(callbacks, FALSE)
              inputs == BatchInputs(n)
              runs   == [i \in 1..n |-> RunCall(Fresh, cur, <<i>>, inputs[i], cfg)]
              all    == [Frame("batch", cur, <<0>>, "all", Arr(inputs), cfg) EXCEPT
                           !.n = n, !.acc = Arr([i \in 1..n |-> NoVal]),
                           !.ret = IF n = 0 THEN OkRet(Arr(<<>>)) ELSE NoRet]
          IN  /\ call' = [m |-> "runBatch", n |-> n, cfg |-> cfg]
              /\ stacks' = [p \in Procs |-> IF p = 0 THEN <<all>>
                                            ELSE IF p <= n THEN runs[p].stack ELSE <<>>]
              /\ trace' = [p \in Procs |-> IF p \in 1..n THEN runs[p].trace ELSE <<>>]
              /\ notified' = notified
    /\ UNCHANGED <<imap, promptCall, parserCall, objs, arrs, lastOp, cur, settled, chunks, llm>>

\* return await Promise.all(...)
BatchResume ==
    /\ stacks[0] # <<>>
    /\ Top(stacks[0]).t = "batch"
    /\ Top(stacks[0]).ret.set
    /\ Return(0, St(0), Top(stacks[0]).ret)
    /\ UNCHANGED <<imap, promptCall, parserCall, objs, arrs, lastOp, cur, call, chunks, llm>>

\* Two run calls on cur, the second made before the first has settled:
\* const a = cur.run(x1); const b = cur.run(x2).
CallOverlap ==
    /\ call.m = "none"
    /\ UnitSize(Heap, cur) <= MaxOverlapUnit
    /\ LET cfg  == Cfg(<<>>, FALSE)
           runs == [i \in 1..2 |-> RunCall(Fresh, cur, <<i>>, BatchInputs(2)[i], cfg)]
       IN  /\ call' = [m |-> "overlap", n |-> 2, cfg |-> cfg]
           /\ stacks' = [p \in Procs |-> IF p \in 1..2 THEN runs[p].stack ELSE <<>>]
           /\ trace' = [p \in Procs |-> IF p \in 1..2 THEN runs[p].trace ELSE <<>>]
           /\ notified' = notified
    /\ UNCHANGED <<imap, promptCall, parserCall, objs, arrs, lastOp, cur, settled, chunks, llm>>

\* cur.runBatch(inputs) of LlamaCppLLM.
CallLLMRunBatch ==
    /\ call.m = "none"
    /\ objs[cur].kind = "LlamaCppLLM"
    /\ \E n \in 0..MaxBatch :
          /\ call' = [m |-> "runBatch", n |-> n, cfg |-> Cfg(<<>>, FALSE)]
          /\ stacks' = [stacks EXCEPT ![0] =
                           <<[Frame("llmbatch", cur, <<0>>, "begin", Arr(BatchInputs(n)), Cfg(<<>>, FALSE))
                                EXCEPT !.n = n, !.acc = Arr(<<>>)]>>]
    /\ UNCHANGED <<imap, promptCall, parserCall, objs, arrs, lastOp, cur, settled, trace, notified, chunks, llm>>

(***************************************************************************)
(* The units the caller builds before the call.                            *)
(***************************************************************************)
BaseTargets ==
    {[LeafHeap EXCEPT !.res = l] : l \in Leaves}
        \cup {NewActionPipeline(AllocArr(LeafHeap, <<>>), 1)}

Extend(t) ==
    {Chain(t, t.res, x) : x \in Leaves}
        \cup {Chain(t, x, t.res) : x \in Leaves}
        \cup {NewActionPipeline(AllocArr(t, <<t.res>>), Len(t.arrs) + 1)}

RECURSIVE Targets(_)
Targets(k) ==
    IF k = 0 THEN BaseTargets
    ELSE LET prev == Targets(k - 1)
         IN  prev \cup UNION {Extend(t) : t \in prev}

Init ==
    /\ \E t \in Targets(MaxOps) :
          /\ objs = t.objs
          /\ arrs = t.arrs
          /\ cur = t.res
    /\ lastOp = NoOp
    /\ call = NoCall
    /\ stacks = [p \in Procs |-> <<>>]
    /\ settled = [p \in Procs |-> NoRet]
    /\ trace = [p \in Procs |-> <<>>]
    /\ notified = <<>>
    /\ chunks = <<>>
    /\ llm = NewLLM
    /\ imap = NoImap
    /\ parserCall = NoParserCall
    /\ promptCall = NoPromptCall

Next ==
    \/ CallRun
    \/ CallStreamOutput
    \/ CallRunBatch
    \/ CallLLMRunBatch
    \/ CallOverlap
    \/ BatchResume
    \/ \E p \in Procs :
          \/ RunExecute(p)
          \/ RunFinish(p)
          \/ PipelineStep(p)
          \/ StreamStep(p)
          \/ PipelineStreamStep(p)
          \/ CustomStreamStep(p)
          \/ LLMInitialize(p)
          \/ LLMLoaded(p)
          \/ LLMPrompt(p)
          \/ LLMDeferredStart(p)
          \/ LLMGenerated(p)
          \/ LLMBatchStep(p)
          \/ LLMStreamStart(p)
          \/ LLMChunk(p)
          \/ LLMStreamSettle(p)
          \/ LLMStreamPoll(p)

Spec == Init /\ [][Next]_vars

(***************************************************************************)
(* Construction alone: the caller chains and constructs units.             *)
(***************************************************************************)
InitChain ==
    /\ objs = LeafObjs
    /\ arrs = <<>>
    /\ cur = 0
    /\ lastOp = NoOp
    /\ call = NoCall
    /\ stacks = [p \in Procs |-> <<>>]
    /\ settled = [p \in Procs |-> NoRet]
    /\ trace = [p \in Procs |-> <<>>]
    /\ notified = <<>>
    /\ chunks = <<>>
    /\ llm = NewLLM
    /\ imap = NoImap
    /\ parserCall = NoParserCall
    /\ promptCall = NoPromptCall

\* this.chain(other)
DoChain ==
    /\ Len(objs) < MaxObjs
    /\ \E this \in 1..Len(objs), other \in 1..Len(objs) :
          LET h == Chain(Heap, this, other)
          IN  /\ objs' = h.objs
              /\ arrs' = h.arrs
              /\ lastOp' = [op |-> "chain", this |-> this, other |-> other,
                            res |-> h.res, before |-> Heap]
    /\ UNCHANGED <<imap, promptCall, parserCall, cur, call, stacks, settled, trace, notified, chunks, llm>>

\* new ActionPipeline([]) and new ActionPipeline([u])
DoNew ==
    /\ Len(objs) < MaxObjs
    /\ \E elems \in {<<>>} \cup {<<u>> : u \in 1..Len(objs)} :
          LET h1 == AllocArr(Heap, elems)
              h  == NewActionPipeline(h1, h1.res)
          IN  /\ objs' = h.objs
              /\ arrs' = h.arrs
              /\ lastOp' = [op |-> "new", this |-> 0, other |-> 0,
                            res |-> h.res, before |-> Heap]
    /\ UNCHANGED <<imap, promptCall, parserCall, cur, call, stacks, settled, trace, notified, chunks, llm>>

NextChain == DoChain \/ DoNew

SpecChain == InitChain /\ [][NextChain]_vars

(***************************************************************************)
(* One LlamaCppLLM instance and its caller: calls of run and streamOutput  *)
(* made one after the other, and one call of dispose made at any moment.   *)
(***************************************************************************)
\* The instance under call: the LlamaCppLLM among the leaves.
TheLLM == CHOOSE u \in DOMAIN LeafObjs : LeafObjs[u].kind = "LlamaCppLLM"

\* The call chains of the calls.
Callers == {1, 2}

\* The inputs of the calls: a string, and message lists with one system
\* message first, with two system messages among the others, and with none.
LLMInputs ==
    {Str(<<"x1">>),
     Arr(<<Message("system", <<"s1">>), Message("human", <<"h1">>)>>),
     Arr(<<Message("human", <<"h1">>), Message("system", <<"s1">>), Message("ai", <<"a1">>),
           Message("system", <<"s2">>)>>),
     Arr(<<Message("human", <<"h1">>), Message("tool", <<"t1">>)>>)}

\* No call was made; dispose is the position of the dispose call, made the
\* calls of run and streamOutput made so far.
NoLLMCall == [m |-> "llm", n |-> 0, cfg |-> Cfg(<<>>, FALSE), dispose |-> "none", made |-> <<>>]

InitLLM ==
    /\ objs = LeafObjs
    /\ arrs = <<>>
    /\ cur = TheLLM
    /\ lastOp = NoOp
    /\ call = NoLLMCall
    /\ stacks = [p \in Procs |-> <<>>]
    /\ settled = [p \in Procs |-> NoRet]
    /\ trace = [p \in Procs |-> <<>>]
    /\ notified = <<>>
    /\ chunks = <<>>
    /\ llm = NewLLM
    /\ imap = NoImap
    /\ parserCall = NoParserCall
    /\ promptCall = NoPromptCall

\* The p-th call on the instance: llm.run(input) or llm.streamOutput(input).
MakeCall(p, m, input) ==
    /\ call' = [call EXCEPT !.n = p, !.made = Append(@, [m |-> m, input |-> input])]
    /\ Commit(p, IF m = "run" THEN RunCall(Fresh, cur, <<p>>, input, call.cfg)
                 ELSE StreamCall(Fresh, cur, <<p>>, input, call.cfg))

\* await llm.run(input) or for await (... of llm.streamOutput(input)), made
\* when the call before it is over.
LLMCall ==
    /\ call.n < Cardinality(Callers)
    /\ \A q \in 1..call.n : settled[q].set
    /\ \E m \in {"run", "streamOutput"},
          input \in (IF call.n = 0 THEN LLMInputs ELSE {Str(<<"x2">>)}) :
          MakeCall(call.n + 1, m, input)
    /\ UNCHANGED <<imap, promptCall, parserCall, objs, arrs, lastOp, cur, settled, chunks, llm>>

\* dispose, its last statements: this._chatSession = null; this._initialized = false.
DisposeFinish(l) ==
    [llm |-> [l EXCEPT !.sid = 0, !.initialized = FALSE, !.disposes = @ + 1], pc |-> "done"]

\* dispose: if (this._model) { await this._model.dispose(); ... }
DisposeModel(l) ==
    IF l.model # 0 THEN [llm |-> [l EXCEPT !.models[l.model].disposed = TRUE], pc |-> "model"]
    ELSE DisposeFinish(l)

\* dispose: if (this._context) { await this._context.dispose(); ... }
DisposeContext(l) ==
    IF l.context # 0 THEN [llm |-> [l EXCEPT !.contexts[l.context].disposed = TRUE], pc |-> "context"]
    ELSE DisposeModel(l)

\* llm.dispose(), up to its first await.
LLMDisposeCall ==
    /\ call.dispose = "none"
    /\ llm' = DisposeContext(llm).llm
    /\ call' = [call EXCEPT !.dispose = DisposeContext(llm).pc]
    /\ UNCHANGED <<imap, promptCall, parserCall, objs, arrs, lastOp, cur, stacks, settled, trace, notified, chunks>>

\* dispose after an await: this._context = null and the model is disposed
\* of, or this._model = null and the last statements.
LLMDisposeResume ==
    /\ call.dispose \in {"context", "model"}
    /\ LET next == IF call.dispose = "context" THEN DisposeModel([llm EXCEPT !.context = 0])
                   ELSE DisposeFinish([llm EXCEPT !.model = 0])
       IN  /\ llm' = next.llm
           /\ call' = [call EXCEPT !.dispose = next.pc]
    /\ UNCHANGED <<imap, promptCall, parserCall, objs, arrs, lastOp, cur, stacks, settled, trace, notified, chunks>>

NextLLM ==
    \/ LLMCall
    \/ LLMDisposeCall
    \/ LLMDisposeResume
    \/ \E p \in Callers :
          \/ RunExecute(p)
          \/ RunFinish(p)
          \/ LLMInitialize(p)
          \/ LLMModelLoaded(p)
          \/ LLMLoaded(p)
          \/ LLMPrompt(p)
          \/ LLMGenerated(p)
          \/ LLMStreamStart(p)
          \/ LLMChunk(p)
          \/ LLMStreamSettle(p)
          \/ LLMStreamPoll(p)

SpecLLM == InitLLM /\ [][NextLLM]_vars

(***************************************************************************)
(* Two consumers of streamOutput on one LlamaCppLLM instance: the second   *)
(* stream is begun at any moment after the first.                          *)
(***************************************************************************)
\* const a = llm.streamOutput("x1"); const b = llm.streamOutput("x2"), each
\* consumed by a for await loop of its own.
StreamsCall ==
    /\ call.n < Cardinality(Callers)
    /\ MakeCall(call.n + 1, "streamOutput", BatchInputs(2)[call.n + 1])
    /\ UNCHANGED <<imap, promptCall, parserCall, objs, arrs, lastOp, cur, settled, chunks, llm>>

NextStreams ==
    \/ StreamsCall
    \/ \E p \in Callers :
          \/ LLMInitialize(p)
          \/ LLMLoaded(p)
          \/ LLMStreamStart(p)
          \/ LLMStreamDeferredStart(p)
          \/ LLMChunk(p)
          \/ LLMStreamSettle(p)
          \/ LLMStreamPoll(p)

SpecStreams == InitLLM /\ [][NextStreams]_vars

(***************************************************************************)
(* EmailImapClient.fetchLatest and fetchMessages (src/imap).  The fetch    *)
(* object of the IMAP library is the environment: for each requested uid   *)
(* it may emit a message, whose events (body, attributes, end) arrive      *)
(* before the next message's; the fetch's end comes after the end of the   *)
(* last message, an error at any time before it.  A body event is emitted  *)
(* at most once per message, for the one part requested (bodies: "").      *)
(***************************************************************************)

MaxUid == 3      \* SpecImap: the inbox holds uids out of 1..MaxUid
MaxLimit == 2    \* SpecImap: fetchLatest is called with a limit of 0..MaxLimit

RequestedBodies == 1

\* The answers of searchMessages: the uids of the inbox, in any order.
Inboxes ==
    {s \in UNION {[1..n -> 1..MaxUid] : n \in 0..MaxUid} :
        \A i, j \in DOMAIN s : i # j => s[i] # s[j]}

\* Array.prototype.sort((a, b) => a - b) of distinct numbers.
RECURSIVE SortAscending(_)
SortAscending(s) ==
    IF s = <<>> THEN <<>>
    ELSE LET least == CHOOSE i \in DOMAIN s : \A j \in DOMAIN s : s[i] <= s[j]
         IN  <<s[least]>> \o
             SortAscending([k \in 1..(Len(s) - 1) |-> IF k < least THEN s[k] ELSE s[k + 1]])

\* Array.prototype.slice(start): a negative start counts from the end, and
\* -0 is 0, the start of the array.
Slice(s, start) ==
    IF start < 0
    THEN SubSeq(s, (IF Len(s) + start < 0 THEN 0 ELSE Len(s) + start) + 1, Len(s))
    ELSE SubSeq(s, start + 1, Len(s))

\* The parts of one message as the message handler creates them, and what
\* the fetch has emitted for it so far.
NewParts(seqno) == [seqno |-> seqno, parsed |-> FALSE, parseError |-> FALSE, attrs |-> FALSE]

NewEnv == [bodies |-> 0, parsing |-> FALSE, attrs |-> FALSE, end |-> FALSE]

Resolve(i, value) ==
    IF i.promise.state = "pending"
    THEN [i EXCEPT !.promise = [state |-> "resolved", value |-> value]]
    ELSE i

Reject(i) ==
    IF i.promise.state = "pending"
    THEN [i EXCEPT !.promise = [state |-> "rejected", value |-> <<>>]]
    ELSE i

FinishWhenEnded(i) == IF i.ended THEN Resolve(i, i.messages) ELSE i

FinishIfDone(i) == IF i.ended /\ i.pending = 0 THEN Resolve(i, i.messages) ELSE i

InitImap ==
    /\ objs = LeafObjs
    /\ arrs = <<>>
    /\ cur = 0
    /\ lastOp = NoOp
    /\ call = NoCall
    /\ stacks = [p \in Procs |-> <<>>]
    /\ settled = [p \in Procs |-> NoRet]
    /\ trace = [p \in Procs |-> <<>>]
    /\ notified = <<>>
    /\ chunks = <<>>
    /\ llm = NewLLM
    /\ parserCall = NoParserCall
    /\ promptCall = NoPromptCall
    /\ \E inbox \in Inboxes, limit \in 0..MaxLimit :
           imap = [NoImap EXCEPT !.pc = "called", !.inbox = inbox, !.limit = limit]

ImapUnchanged ==
    UNCHANGED <<objs, arrs, lastOp, cur, call, stacks, settled, trace, notified, chunks, llm,
                parserCall, promptCall>>

\* fetchLatest up to the fetch: the search, the sort, the slice, and
\* fetchMessages up to the return of its promise.
FetchLatest ==
    /\ imap.pc = "called"
    /\ LET last == Slice(SortAscending(imap.inbox), 0 - imap.limit)
           i == [imap EXCEPT !.pc = "fetching", !.last = last]
       IN  imap' = IF last = <<>>
                   THEN Resolve(i, <<>>)
                   ELSE [i EXCEPT !.fetched = TRUE]
    /\ ImapUnchanged

FetchOpen == imap.fetched /\ ~imap.fetchEnded

OnMessage ==
    /\ FetchOpen
    /\ imap.current = 0
    /\ Len(imap.env) < Len(imap.last)
    /\ imap' = [imap EXCEPT !.pending = @ + 1,
                            !.parts = Append(@, NewParts(Len(imap.env) + 1)),
                            !.env = Append(@, NewEnv),
                            !.current = Len(imap.env) + 1]
    /\ ImapUnchanged

OnBody ==
    /\ FetchOpen
    /\ imap.current # 0
    /\ imap.env[imap.current].bodies < RequestedBodies
    /\ imap' = [imap EXCEPT !.env[imap.current].bodies = @ + 1,
                            !.env[imap.current].parsing = TRUE]
    /\ ImapUnchanged

ParseSettled ==
    /\ \E m \in DOMAIN imap.env, ok \in BOOLEAN :
           /\ imap.env[m].parsing
           /\ imap' = FinishIfDone([imap EXCEPT !.env[m].parsing = FALSE,
                                                !.parts[m].parsed = ok,
                                                !.parts[m].parseError = ~ok,
                                                !.pending = @ - 1])
    /\ ImapUnchanged

OnAttributes ==
    /\ FetchOpen
    /\ imap.current # 0
    /\ ~imap.env[imap.current].attrs
    /\ imap' = [imap EXCEPT !.env[imap.current].attrs = TRUE,
                            !.parts[imap.current].attrs = TRUE]
    /\ ImapUnchanged

OnMessageEnd ==
    /\ FetchOpen
    /\ imap.current # 0
    /\ imap' = [imap EXCEPT !.env[imap.current].end = TRUE,
                            !.messages = Append(@, imap.current),
                            !.current = 0]
    /\ ImapUnchanged

OnFetchError ==
    /\ FetchOpen
    /\ ~imap.fetchError
    /\ imap' = Reject([imap EXCEPT !.fetchError = TRUE])
    /\ ImapUnchanged

OnFetchEnd ==
    /\ FetchOpen
    /\ imap.current = 0
    /\ imap' = FinishIfDone([imap EXCEPT !.fetchEnded = TRUE, !.ended = TRUE])
    /\ ImapUnchanged

\* fetchLatest after the promise of fetchMessages settled: endConnection and
\* the return of the messages, or the rejection passed on.
FetchLatestReturn ==
    /\ imap.pc = "fetching"
    /\ imap.promise.state # "pending"
    /\ imap' = [imap EXCEPT !.pc = IF imap.promise.state = "resolved"
                                   THEN "returned" ELSE "thrown"]
    /\ ImapUnchanged

NextImap ==
    \/ FetchLatest
    \/ OnMessage
    \/ OnBody
    \/ ParseSettled
    \/ OnAttributes
    \/ OnMessageEnd
    \/ OnFetchError
    \/ OnFetchEnd
    \/ FetchLatestReturn

SpecImap == InitImap /\ [][NextImap]_vars

(***************************************************************************)
(* Reading the traces.                                                     *)
(***************************************************************************)
\* The places of trace tr where event e of the call with path rid is recorded.
EvIdx(tr, e, rid) == {i \in 1..Len(tr) : tr[i].e = e /\ tr[i].rid = rid}

TheEv(tr, e, rid) == tr[CHOOSE i \in EvIdx(tr, e, rid) : TRUE]

IsPrefix(s, t) == Len(s) <= Len(t) /\ SubSeq(t, 1, Len(s)) = s

\* A run frame of the call with path rid is on the stack of p.
OnStack(p, rid) == \E i \in 1..Len(stacks[p]) : stacks[p][i].t = "run" /\ stacks[p][i].rid = rid

\* The places of tr where _execute of a pipeline was entered by its run.
PipelineRuns(tr) == {i \in 1..Len(tr) : tr[i].e = "execute" /\ IsPipeline(Heap, tr[i].u)}

\* `${...}+${value}` applied along a list of AddAction steps.
RECURSIVE FoldAdd(_, _)
FoldAdd(flat, x) ==
    IF flat = <<>> THEN x
    ELSE FoldAdd(Tail(flat), Str(ToStr(x) \o <<AddTok[Head(flat)]>>))

AllAdd(flat) == \A i \in 1..Len(flat) : objs[flat[i]].kind = "AddAction"

(***************************************************************************)
(* C1: a pipeline run whose steps all succeed returns sN(...s2(s1(input))):*)
(* the first step's run receives the pipeline's input, every later step's  *)
(* run receives exactly the output of the step before it, and the result   *)
(* is the last step's output.                                              *)
(***************************************************************************)
C1_PipelineFold ==
    \A p \in Procs :
      LET tr == trace[p]
      IN  \A i \in 1..Len(tr) :
            (tr[i].e = "handleEnd" /\ IsPipeline(Heap, tr[i].u)
                /\ Len(StepsOf(Heap, tr[i].u)) >= 1) =>
              LET R     == tr[i].rid
                  steps == StepsOf(Heap, tr[i].u)
                  N     == Len(steps)
                  in    == TheEv(tr, "handleStart", R).v
                  Out(k) == TheEv(tr, "handleEnd", Append(R, k)).v
              IN  /\ \A k \in 1..N :
                        /\ Cardinality(EvIdx(tr, "handleStart", Append(R, k))) = 1
                        /\ Cardinality(EvIdx(tr, "handleEnd", Append(R, k))) = 1
                  /\ \A k \in 1..N :
                        /\ TheEv(tr, "handleStart", Append(R, k)).u = steps[k]
                        /\ TheEv(tr, "handleStart", Append(R, k)).v = IF k = 1 THEN in ELSE Out(k - 1)
                  /\ tr[i].v = Out(N)
                  /\ AllAdd(FlatSteps(Heap, tr[i].u)) =>
                        tr[i].v = FoldAdd(FlatSteps(Heap, tr[i].u), in)

\* A run of a three-step pipeline of AddAction units has resolved.
C1_Witness ==
    /\ call.m = "run"
    /\ IsPipeline(Heap, cur)
    /\ StepsOf(Heap, cur) = <<1, 2, 1>>
    /\ settled[0] = OkRet(Str(<<"x0", "+1", "+2", "+1">>))

(***************************************************************************)
(* C2: during one pipeline run the steps are started in index order, each  *)
(* at most once, and step k+1 is not started before the run of step k has  *)
(* resolved.                                                               *)
(***************************************************************************)
C2_StepsInSequence ==
    \A p \in Procs :
      LET tr == trace[p]
      IN  \A r \in PipelineRuns(tr) :
            LET R      == tr[r].rid
                starts == {i \in 1..Len(tr) : /\ tr[i].e = "handleStart"
                                              /\ Len(tr[i].rid) = Len(R) + 1
                                              /\ IsPrefix(R, tr[i].rid)}
                K(i)   == tr[i].rid[Len(R) + 1]
            IN  /\ \A i \in starts :
                      /\ i > r
                      /\ tr[i].u = StepsOf(Heap, tr[r].u)[K(i)]
                      /\ K(i) = Cardinality({j \in starts : j <= i})
                      /\ K(i) > 1 =>
                            \E j \in EvIdx(tr, "handleEnd", Append(R, K(i) - 1)) : j < i
                /\ \A i, j \in starts : i < j => K(i) < K(j)

\* The second step of a running pipeline has been started.
C2_Witness ==
    /\ call.m = "run"
    /\ IsPipeline(Heap, cur)
    /\ Len(StepsOf(Heap, cur)) >= 2
    /\ EvIdx(trace[0], "handleStart", <<0, 2>>) # {}
    /\ OnStack(0, <<0>>)

(***************************************************************************)
(* C3: if step k of a pipeline throws, the pipeline's run rejects with     *)
(* that step's error, no step after k is started in that run, and nothing  *)
(* is executed for the steps before k.                                     *)
(***************************************************************************)
C3_FailingStepAborts ==
    \A p \in Procs :
      LET tr == trace[p]
      IN  \A r \in PipelineRuns(tr) :
            LET R == tr[r].rid
            IN  \A i \in 1..Len(tr) :
                  (tr[i].e = "handleError" /\ Len(tr[i].rid) = Len(R) + 1
                      /\ IsPrefix(R, tr[i].rid)) =>
                    /\ \A j \in 1..Len(tr) :
                          (j > i /\ IsPrefix(R, tr[j].rid)) =>
                            /\ tr[j].rid = R
                            /\ tr[j].e \in {"executeThrew", "handleError"}
                            /\ tr[j].err = tr[i].err
                    /\ ~OnStack(p, R) =>
                          /\ EvIdx(tr, "handleError", R) # {}
                          /\ EvIdx(tr, "handleEnd", R) = {}

\* The first of two steps threw and the pipeline's run has rejected with its error.
C3_Witness ==
    /\ call.m = "run"
    /\ IsPipeline(Heap, cur)
    /\ StepsOf(Heap, cur) = <<3, 1>>
    /\ settled[0] = ErrRet(Err("must implement _call() method", <<0, 1>>))

\* The notifications observer obs received about the call with path rid, in order.
NotesOf(obs, rid) ==
    LET sel == SelectSeq(notified, LAMBDA n : n.obs = obs /\ n.rid = rid)
    IN  [i \in 1..Len(sel) |-> sel[i].ev]

\* The runs of trace tr that have returned or thrown in call chain p.
FinishedRuns(p) ==
    {trace[p][i].rid : i \in {j \in 1..Len(trace[p]) :
        trace[p][j].e = "handleStart" /\ ~OnStack(p, trace[p][j].rid)}}

\* Call chain p is a run the caller or runBatch called, and it has settled.
TopRunSettled(p) == settled[p].set /\ (p = 0 => call.m = "run")

(***************************************************************************)
(* C4: when the transform of a unit throws error e, run rejects with that  *)
(* same error e and every failure-observer in the callbacks of the run     *)
(* context is invoked with e.                                              *)
(***************************************************************************)
C4_ErrorReachesObservers ==
    \A p \in Procs :
      LET tr == trace[p]
      IN  \A i \in 1..Len(tr) :
            (tr[i].e = "executeThrew" /\ ~OnStack(p, tr[i].rid)) =>
              /\ (tr[i].rid = <<p>> /\ TopRunSettled(p)) => settled[p] = ErrRet(tr[i].err)
              /\ \A k \in 1..Len(call.cfg.callbacks) :
                    \E n \in 1..Len(notified) :
                      /\ notified[n].obs = call.cfg.callbacks[k]
                      /\ notified[n].ev = "error"
                      /\ notified[n].rid = tr[i].rid
                      /\ notified[n].err = tr[i].err

(***************************************************************************)
(* C5: for every run the start-observers are notified first, and then      *)
(* exactly one of the two happens: the success-observers are notified with *)
(* the output after the transform resolved, or the failure-observers are   *)
(* notified with the error after it threw.                                 *)
(***************************************************************************)
C5_LifecycleOrder ==
    \A p \in Procs :
      \A rid \in FinishedRuns(p) :
        \A k \in 1..Len(call.cfg.callbacks) :
          LET notes == NotesOf(call.cfg.callbacks[k], rid)
          IN  /\ notes \in {<<"start", "end">>, <<"start", "error">>}
              /\ notes[2] = "end" <=> EvIdx(trace[p], "executeResolved", rid) # {}
              /\ notes[2] = "error" <=> EvIdx(trace[p], "executeThrew", rid) # {}

C7_ExecuteOnlyThroughRun ==
    \A p \in Procs :
      LET tr == trace[p]
      IN  \A i \in 1..Len(tr) :
            tr[i].e = "execute" =>
              /\ \E j \in EvIdx(tr, "handleStart", tr[i].rid) : j < i /\ tr[j].u = tr[i].u
              /\ settled[p].set =>
                    \E j \in EvIdx(tr, "handleEnd", tr[i].rid)
                               \cup EvIdx(tr, "handleError", tr[i].rid) : j > i

(***************************************************************************)
(* C8: runBatch(inputs), when every invocation succeeds, returns a list as *)
(* long as inputs whose i-th element is the result of run(inputs[i]),      *)
(* whatever the order in which the invocations complete; runBatch([])      *)
(* returns the empty list.                                                 *)
(***************************************************************************)
C8_BatchOrder ==
    (call.m = "runBatch" /\ objs[cur].kind # "LlamaCppLLM" /\ settled[0].set /\ settled[0].ok) =>
      /\ settled[0].v.type = "array"
      /\ Len(settled[0].v.items) = call.n
      /\ \A i \in 1..call.n :
            /\ settled[i].set
            /\ settled[i].ok
            /\ TheEv(trace[i], "handleStart", <<i>>).v = BatchInputs(call.n)[i]
            /\ settled[0].v.items[i] = settled[i].v
            /\ objs[cur].kind = "AddAction" =>
                  settled[0].v.items[i] = Str(<<InTok[i], AddTok[cur]>>)

\* A batch of two has resolved, the second invocation having completed first.
C8_Witness ==
    /\ call.m = "runBatch"
    /\ call.n = 2
    /\ settled[0].set
    /\ settled[0].ok
    /\ Len(trace[0]) = 2
    /\ trace[0][1].rid = <<2>>
    /\ trace[0][1].e = "fulfilled"

\* The steps a unit contributes when its steps are taken: its own steps if it
\* is a pipeline, itself otherwise.
StepList(h, u) == IF IsPipeline(h, u) THEN StepsOf(h, u) ELSE <<u>>

(***************************************************************************)
(* C9: a.chain(b).chain(c) for three units that are no pipelines is one    *)
(* pipeline whose step list is exactly [a, b, c]; in general               *)
(* pipeline.chain(x) has the receiver's steps, in order, followed by x.    *)
(***************************************************************************)
C9_ChainAppendsToReceiver ==
    lastOp.op = "chain" =>
      LET b == lastOp.before
      IN  /\ IsPipeline(Heap, lastOp.res)
          /\ IsPipeline(b, lastOp.this) =>
                StepsOf(Heap, lastOp.res) = StepsOf(b, lastOp.this) \o <<lastOp.other>>
          /\ (/\ IsPipeline(b, lastOp.this)
              /\ Len(StepsOf(b, lastOp.this)) = 2
              /\ \A i \in 1..2 : ~IsPipeline(b, StepsOf(b, lastOp.this)[i])
              /\ ~IsPipeline(b, lastOp.other)) =>
                /\ Len(StepsOf(Heap, lastOp.res)) = 3
                /\ \A i \in 1..3 : ~IsPipeline(Heap, StepsOf(Heap, lastOp.res)[i])

\* The pipeline of a.chain(b) was chained with c: the result has the steps a, b, c.
C9_Witness ==
    /\ lastOp.op = "chain"
    /\ IsPipeline(lastOp.before, lastOp.this)
    /\ StepsOf(lastOp.before, lastOp.this) = <<1, 2>>
    /\ lastOp.other = 3
    /\ StepsOf(Heap, lastOp.res) = <<1, 2, 3>>

(***************************************************************************)
(* C10, as stated:  u.chain(n) is a pipeline whose step list is u's steps  *)
(* (u itself if u is no pipeline) followed by n's steps (n itself if n is  *)
(* no pipeline).                                                           *)
(***************************************************************************)
C10_ChainFlattensBoth ==
    lastOp.op = "chain" =>
      StepsOf(Heap, lastOp.res) =
        StepList(lastOp.before, lastOp.this) \o StepList(lastOp.before, lastOp.other)

(***************************************************************************)
(* C10, amended: u.chain(n) is a pipeline whose step list is u's steps (u  *)
(* itself if u is no pipeline) followed by the one step n; when n is a     *)
(* pipeline it is nested as that one step.                                 *)
(***************************************************************************)
C10_ChainAppendsOneStep ==
    lastOp.op = "chain" =>
      /\ IsPipeline(Heap, lastOp.res)
      /\ StepsOf(Heap, lastOp.res) = StepList(lastOp.before, lastOp.this) \o <<lastOp.other>>

\* A unit that is no pipeline was chained with a two-step pipeline, which is
\* the second of the two steps of the result.
C10_Witness ==
    /\ lastOp.op = "chain"
    /\ ~IsPipeline(lastOp.before, lastOp.this)
    /\ IsPipeline(lastOp.before, lastOp.other)
    /\ Len(StepsOf(lastOp.before, lastOp.other)) = 2
    /\ StepsOf(Heap, lastOp.res) = <<lastOp.this, lastOp.other>>

\* The pipelines of heap h.
Pipelines(h) == {u \in 1..Len(h.objs) : IsPipeline(h, u)}

(***************************************************************************)
(* C11: chain never changes its receiver: after p.chain(x) the step list   *)
(* of p has the length and the elements it had before, and the pipelines   *)
(* obtained by chaining onto the same base p share their step list neither *)
(* with p nor with one another.                                            *)
(***************************************************************************)
C11_ChainLeavesReceiver ==
    /\ lastOp.op = "chain" =>
          LET b == lastOp.before
          IN  /\ \A u \in 1..Len(b.objs) : objs[u] = b.objs[u]
              /\ \A a \in 1..Len(b.arrs) : arrs[a] = b.arrs[a]
              /\ IsPipeline(b, lastOp.this) =>
                    StepsOf(Heap, lastOp.this) = StepsOf(b, lastOp.this)
              /\ \A u \in Pipelines(b) : objs[lastOp.res].steps # b.objs[u].steps
    /\ \A u, v \in Pipelines(Heap) : u # v => objs[u].steps # objs[v].steps

\* Base pipeline 6 = 1.chain(2) was chained with 3 and then with 4: the two
\* results end in different units and the base still has its two steps.
C11_Witness ==
    /\ lastOp.op = "chain"
    /\ Len(objs) = 8
    /\ StepsOf(Heap, 6) = <<1, 2>>
    /\ StepsOf(Heap, 7) = <<1, 2, 3>>
    /\ lastOp.this = 6
    /\ StepsOf(Heap, 8) = <<1, 2, 4>>

(***************************************************************************)
(* C12: a pipeline always has at least one step: a pipeline with an empty  *)
(* step list cannot be constructed, so neither _execute nor _streamOutput  *)
(* of a pipeline is ever in progress on a pipeline without steps.          *)
(***************************************************************************)
C12_PipelineHasSteps ==
    \A p \in Procs :
      \A i \in 1..Len(stacks[p]) :
        stacks[p][i].t \in {"pipe", "pstream"} =>
          /\ \A u \in Pipelines(Heap) : Len(StepsOf(Heap, u)) >= 1
          /\ Len(StepsOf(Heap, stacks[p][i].u)) >= 1

\* The unit has neither a _streamOutput nor a streamOutput of its own.
DefaultStreaming(u) == objs[u].kind \in {"AddAction", "Action"}

(***************************************************************************)
(* C13: for a unit that does not override the streaming primitive,         *)
(* streamOutput(input) yields exactly one chunk, equal to what run(input)  *)
(* returns, and then finishes; nothing is yielded before run has returned, *)
(* and nothing at all when run throws.                                     *)
(***************************************************************************)
C13_DefaultStreamOneChunk ==
    (call.m = "streamOutput" /\ DefaultStreaming(cur)) =>
      LET tr == trace[0]
      IN  /\ EvIdx(tr, "handleEnd", <<0>>) = {} => chunks = <<>>
          /\ settled[0].set =>
               IF EvIdx(tr, "handleEnd", <<0>>) # {}
               THEN /\ chunks = <<TheEv(tr, "handleEnd", <<0>>).v>>
                    /\ settled[0].ok
                    /\ objs[cur].kind = "AddAction" => chunks = <<AddExecute(cur, In0).v>>
               ELSE /\ chunks = <<>>
                    /\ ~settled[0].ok

\* The stream of an AddAction has finished after its one chunk "x0+1".
C13_Witness ==
    /\ call.m = "streamOutput"
    /\ cur = 1
    /\ settled[0].set
    /\ settled[0].ok
    /\ chunks = <<Str(<<"x0", "+1">>)>>

\* The values of the chunks that trace tr records as yielded, in order.
Yielded(tr) ==
    LET ys == SelectSeq(tr, LAMBDA ev : ev.e = "yield")
    IN  [i \in 1..Len(ys) |-> ys[i].v]

(***************************************************************************)
(* C14: streaming a pipeline of N steps runs the steps 1..N-1 to           *)
(* completion through run, in order, and then yields exactly the chunks of *)
(* streamOutput of step N applied to the output of step N-1 (to the input  *)
(* of the pipeline when N = 1); no chunk is yielded before step N-1 has    *)
(* resolved.                                                               *)
(***************************************************************************)
C14_PipelineStreamsTail ==
    (call.m = "streamOutput" /\ IsPipeline(Heap, cur) /\ Len(StepsOf(Heap, cur)) >= 1) =>
      LET tr    == trace[0]
          steps == StepsOf(Heap, cur)
          N     == Len(steps)
          EndOf(k) == TheEv(tr, "handleEnd", <<0, k>>).v
          Ended(k) == EvIdx(tr, "handleEnd", <<0, k>>) # {}
      IN  /\ \A k \in 1..(N - 1) :
                /\ EvIdx(tr, "streamOutput", <<0, k>>) = {}
                /\ \A i \in EvIdx(tr, "handleStart", <<0, k>>) :
                      /\ tr[i].u = steps[k]
                      /\ tr[i].v = IF k = 1 THEN In0 ELSE EndOf(k - 1)
                      /\ k > 1 => \E j \in EvIdx(tr, "handleEnd", <<0, k - 1>>) : j < i
                /\ Cardinality(EvIdx(tr, "handleStart", <<0, k>>)) <= 1
          /\ \A i \in EvIdx(tr, "streamOutput", <<0, N>>) :
                /\ tr[i].u = steps[N]
                /\ tr[i].v = IF N = 1 THEN In0 ELSE EndOf(N - 1)
                /\ N > 1 => \E j \in EvIdx(tr, "handleEnd", <<0, N - 1>>) : j < i
          /\ \A i \in 1..Len(tr) :
                tr[i].e = "yield" =>
                  /\ IsPrefix(<<0, N>>, tr[i].rid)
                  /\ \E j \in EvIdx(tr, "streamOutput", <<0, N>>) : j < i
                  /\ N > 1 => \E j \in EvIdx(tr, "handleEnd", <<0, N - 1>>) : j < i
          /\ chunks = Yielded(tr)
          /\ (settled[0].set /\ settled[0].ok) =>
                /\ \A k \in 1..(N - 1) : Ended(k)
                /\ EvIdx(tr, "streamOutput", <<0, N>>) # {}
                /\ AllAdd(FlatSteps(Heap, cur)) => chunks = <<FoldAdd(FlatSteps(Heap, cur), In0)>>

\* The stream of the pipeline [1, 2] has finished: step 1 was run and the one
\* chunk is what step 2 makes of the output of step 1.
C14_Witness ==
    /\ call.m = "streamOutput"
    /\ IsPipeline(Heap, cur)
    /\ StepsOf(Heap, cur) = <<1, 2>>
    /\ settled[0].set
    /\ settled[0].ok
    /\ chunks = <<Str(<<"x0", "+1", "+2">>)>>

\* The chunks that trace tr records as produced (yielded by a generator of the
\* unit's own, or handed to onTextChunk by the backend), in order.
Produced(tr) ==
    LET ps == SelectSeq(tr, LAMBDA ev : ev.e = "produced")
    IN  [i \in 1..Len(ps) |-> ps[i].v]

\* Every chunk of the stream of call chain 0 so far came from a unit that
\* streams by itself (a _streamOutput or streamOutput of its own).
OwnStreaming ==
    /\ call.m = "streamOutput"
    /\ \A i \in 1..Len(trace[0]) : trace[0][i].e = "yield" => ~DefaultStreaming(trace[0][i].u)

(***************************************************************************)
(* C15, as stated: within one stream every produced chunk is delivered to  *)
(* the consumer exactly once and in the order of production, whether the   *)
(* stream ends normally or with an error.                                  *)
(***************************************************************************)
C15_EveryChunkDelivered ==
    OwnStreaming =>
      /\ IsPrefix(chunks, Produced(trace[0]))
      /\ settled[0].set => chunks = Produced(trace[0])

(***************************************************************************)
(* C15, the part that holds: within one stream the chunks delivered to the *)
(* consumer are, in the order of production and each once, the chunks      *)
(* produced so far or a prefix of them; when the stream ends without an    *)
(* error every produced chunk has been delivered.                          *)
(***************************************************************************)
C15_DeliveredInOrder ==
    OwnStreaming =>
      /\ IsPrefix(chunks, Produced(trace[0]))
      /\ chunks = Yielded(trace[0])
      /\ (settled[0].set /\ settled[0].ok) => chunks = Produced(trace[0])
      /\ objs[cur].kind = "StreamingAction" => chunks = Produced(trace[0])

\* What u.run(input) settles with when no other call is in progress and the
\* backend does not fail; rid is the path of the call.
RECURSIVE Alone(_, _, _)
RECURSIVE AloneSteps(_, _, _, _)
Alone(u, input, rid) ==
    CASE objs[u].kind = "AddAction"       -> AddExecute(u, input)
      [] objs[u].kind = "Action"          -> ActionExecute(u, rid)
      [] objs[u].kind = "StreamingAction" -> StreamingExecute(input)
      [] objs[u].kind = "LlamaCppLLM"     ->
            IF input.type \notin {"string", "array"}
            THEN ErrRet(Err("Input must be a string or array of messages", rid))
            ELSE OkRet(AIMessage(BackendResponse(MessagesToChatHistory(InputMessages(input)))))
      [] objs[u].kind = "ActionPipeline"  -> AloneSteps(StepsOf(Heap, u), 1, OkRet(input), rid)

AloneSteps(steps, k, ret, rid) ==
    IF k > Len(steps) \/ ~ret.ok THEN ret
    ELSE AloneSteps(steps, k + 1, Alone(steps[k], ret.v, Append(rid, k)), rid)

\* The settlement is a failure of the backend (loading the model, generating).
BackendFailed(ret) ==
    /\ ret.set
    /\ ~ret.ok
    /\ ret.e.msg \in {"Failed to initialize model", "Generation failed: backend error"}

(***************************************************************************)
(* C16: overlapping run calls on the same unit are safe: each call returns *)
(* what its own input would give if run alone; for the LlamaCppLLM the     *)
(* chat history in effect when the generation of a call starts is the one  *)
(* that this call set.                                                     *)
(***************************************************************************)
C16_OverlappingRunsSafe ==
    call.m = "overlap" =>
      \A p \in 1..2 :
        /\ settled[p].set =>
              \/ settled[p] = Alone(cur, BatchInputs(2)[p], <<p>>)
              \/ BackendFailed(settled[p])
        /\ \A i \in 1..Len(trace[p]) :
              trace[p][i].e = "generationStart" =>
                trace[p][i].v.items =
                  MessagesToChatHistory(InputMessages(TheEv(trace[p], "execute", trace[p][i].rid).v))

(***************************************************************************)
(* C16, the part that holds: overlapping run calls on a unit that holds no *)
(* LlamaCppLLM each return what their own input would give if run alone.   *)
(***************************************************************************)
C16_StatelessRunsSafe ==
    (call.m = "overlap" /\ \A i \in 1..Len(FlatSteps(Heap, cur)) :
                              objs[FlatSteps(Heap, cur)[i]].kind # "LlamaCppLLM") =>
      \A p \in 1..2 :
        settled[p].set => settled[p] = Alone(cur, BatchInputs(2)[p], <<p>>)

(***************************************************************************)
(* C17: the core performs no retry: one call of run starts the transform   *)
(* of the unit exactly once, and in a chain of calls (a run, a stream, a   *)
(* pipeline, one invocation of a batch) no transform is started after a    *)
(* transform has failed.                                                   *)
(***************************************************************************)
C17_NoRetry ==
    \A p \in Procs :
      LET tr == trace[p]
      IN  /\ \A i \in 1..Len(tr) :
                /\ tr[i].e \in {"execute", "generationStart"} =>
                      Cardinality(EvIdx(tr, tr[i].e, tr[i].rid)) = 1
                /\ tr[i].e = "executeThrew" =>
                      \A j \in (i + 1)..Len(tr) : tr[j].e \notin {"execute", "generationStart"}
          /\ \A rid \in FinishedRuns(p) : Cardinality(EvIdx(tr, "execute", rid)) = 1

\* The run of the pipeline [3, 1] has rejected: the transform of the base
\* Action was started once and threw, and the transform of step 2 never started.
C17_Witness ==
    /\ call.m = "run"
    /\ IsPipeline(Heap, cur)
    /\ StepsOf(Heap, cur) = <<3, 1>>
    /\ settled[0].set
    /\ ~settled[0].ok
    /\ Cardinality(EvIdx(trace[0], "execute", <<0, 1>>)) = 1
    /\ EvIdx(trace[0], "executeThrew", <<0, 1>>) # {}
    /\ EvIdx(trace[0], "execute", <<0, 2>>) = {}

(***************************************************************************)
(* C18: an error raised by the generation backend during run or            *)
(* streamOutput of the LLM adapter reaches the caller unchanged: the call  *)
(* rejects with that same error, with the same message.                    *)
(***************************************************************************)
C18_BackendErrorUnchanged ==
    call.m \in {"run", "streamOutput"} =>
      \A i \in 1..Len(trace[0]) :
        (trace[0][i].e = "backendRejected" /\ settled[0].set) =>
          /\ settled[0] = ErrRet(trace[0][i].err)
          /\ settled[0].e.msg = BackendError.msg

(***************************************************************************)
(* JsonOutputParser.  A text is a sequence of characters; a fence of three *)
(* backticks and the tag json are one character each.                      *)
(***************************************************************************)
Whitespace == {" ", "\n"}

Digits == {"1", "2"}

\* The first position from i on that holds no whitespace.
RECURSIVE SkipWs(_, _)
SkipWs(s, i) == IF i <= Len(s) /\ s[i] \in Whitespace THEN SkipWs(s, i + 1) ELSE i

\* The last position up to i that holds no whitespace.
RECURSIVE SkipWsBack(_, _)
SkipWsBack(s, i) == IF i >= 1 /\ s[i] \in Whitespace THEN SkipWsBack(s, i - 1) ELSE i

\* String.prototype.trim
Trim(s) == SubSeq(s, SkipWs(s, 1), SkipWsBack(s, Len(s)))

\* The values JSON.parse returns.
JV(k, text, items) == [k |-> k, text |-> text, items |-> items]

JStr(text) == JV("string", text, <<>>)

JNum(text) == JV("number", text, <<>>)

\* The literals true, false and null, one character each.
Literals == {"true", "false", "null"}

JLit(c) == JV(IF c = "null" THEN "null" ELSE "boolean", <<c>>, <<>>)

JArr(items) == JV("array", <<>>, items)

JObj(members) == JV("object", <<>>, members)

Member(key, v) == JV("member", key, <<v>>)

\* obj[key] = v: a key that is there keeps its place and gets the new value.
SetMember(members, key, v) ==
    IF \E i \in 1..Len(members) : members[i].text = key
    THEN [i \in 1..Len(members) |-> IF members[i].text = key THEN Member(key, v) ELSE members[i]]
    ELSE Append(members, Member(key, v))

Parsed(v, next) == [ok |-> TRUE, v |-> v, next |-> next]

SyntaxError == [ok |-> FALSE, v |-> JObj(<<>>), next |-> 0]

\* A string literal that begins at s[i] = '"': up to the next quote, with no
\* control character in it.
ParseString(s, i) ==
    LET quotes == {j \in (i + 1)..Len(s) : s[j] = "\""}
    IN  IF quotes = {} THEN SyntaxError
        ELSE LET j == CHOOSE q \in quotes : \A r \in quotes : q <= r
             IN  IF \E k \in (i + 1)..(j - 1) : s[k] = "\n" THEN SyntaxError
                 ELSE Parsed(JStr(SubSeq(s, i + 1, j - 1)), j + 1)

\* The first position from i on that holds no digit.
RECURSIVE SkipDigits(_, _)
SkipDigits(s, i) == IF i <= Len(s) /\ s[i] \in Digits THEN SkipDigits(s, i + 1) ELSE i

ParseNumber(s, i) == Parsed(JNum(SubSeq(s, i, SkipDigits(s, i) - 1)), SkipDigits(s, i))

\* JSON.parse, by recursive descent: a value that begins at or after s[i];
\* the members of an object and the elements of an array from s[i] on.
RECURSIVE ParseValue(_, _)
RECURSIVE ParseMembers(_, _, _, _)
RECURSIVE ParseElements(_, _, _, _)
ParseValue(s, i) ==
    LET j == SkipWs(s, i)
    IN  IF j > Len(s) THEN SyntaxError
        ELSE CASE s[j] = "{"      -> ParseMembers(s, SkipWs(s, j + 1), <<>>, TRUE)
               [] s[j] = "["      -> ParseElements(s, SkipWs(s, j + 1), <<>>, TRUE)
               [] s[j] = "\""     -> ParseString(s, j)
               [] s[j] \in Digits -> ParseNumber(s, j)
               [] s[j] \in Literals -> Parsed(JLit(s[j]), j + 1)
               [] OTHER           -> SyntaxError

ParseMembers(s, i, acc, first) ==
    IF i > Len(s) THEN SyntaxError
    ELSE IF s[i] = "}" /\ first THEN Parsed(JObj(acc), i + 1)
    ELSE IF s[i] # "\"" THEN SyntaxError
    ELSE LET key   == ParseString(s, i)
             colon == IF key.ok THEN SkipWs(s, key.next) ELSE 0
             val   == IF key.ok /\ colon <= Len(s) /\ s[colon] = ":"
                      THEN ParseValue(s, colon + 1) ELSE SyntaxError
             after == IF val.ok THEN SkipWs(s, val.next) ELSE 0
             acc1  == IF val.ok THEN SetMember(acc, key.v.text, val.v) ELSE acc
         IN  IF ~val.ok \/ after > Len(s) THEN SyntaxError
             ELSE IF s[after] = "," THEN ParseMembers(s, SkipWs(s, after + 1), acc1, FALSE)
             ELSE IF s[after] = "}" THEN Parsed(JObj(acc1), after + 1)
             ELSE SyntaxError

ParseElements(s, i, acc, first) ==
    IF i > Len(s) THEN SyntaxError
    ELSE IF s[i] = "]" /\ first THEN Parsed(JArr(acc), i + 1)
    ELSE LET val   == ParseValue(s, i)
             after == IF val.ok THEN SkipWs(s, val.next) ELSE 0
         IN  IF ~val.ok \/ after > Len(s) THEN SyntaxError
             ELSE IF s[after] = "," THEN ParseElements(s, SkipWs(s, after + 1), Append(acc, val.v), FALSE)
             ELSE IF s[after] = "]" THEN Parsed(JArr(Append(acc, val.v)), after + 1)
             ELSE SyntaxError

\* JSON.parse(s): one value, with nothing but whitespace around it.
JsonParse(s) ==
    LET r == ParseValue(s, 1)
    IN  IF r.ok /\ SkipWs(s, r.next) > Len(s) THEN r ELSE SyntaxError


\* The code fence of three backticks, and the tag json, as characters.
Fence == "fence"

Tag == "json"

\* The number of times character c occurs in s.
Count(s, c) == Cardinality({i \in 1..Len(s) : s[i] = c})

Repeat(c, n) == [i \in 1..n |-> c]

First(s, c) == CHOOSE i \in 1..Len(s) : s[i] = c /\ \A j \in 1..(i - 1) : s[j] # c

Last(s, c) == CHOOSE i \in 1..Len(s) : s[i] = c /\ \A j \in (i + 1)..Len(s) : s[j] # c

\* text.match of the code-block pattern: the first fence that has a fence
\* after it, an optional json tag, whitespace, and lazily up to the next fence.
BlockMatch(text) == Count(text, Fence) >= 2

Block(text) ==
    LET p     == First(text, Fence)
        tag   == IF text[p + 1] = Tag THEN p + 2 ELSE p + 1
        from  == SkipWs(text, tag)
        close == CHOOSE q \in from..Len(text) :
                     text[q] = Fence /\ \A r \in from..(q - 1) : text[r] # Fence
    IN  SubSeq(text, from, close - 1)

\* text.match of an open character, anything, a close character, greedily:
\* from the first open to the last close.
RegionMatch(text, open, close) ==
    Count(text, open) > 0 /\ Count(text, close) > 0 /\ First(text, open) < Last(text, close)

Region(text, open, close) == SubSeq(text, First(text, open), Last(text, close))

\* An extraction that wraps whatever matched nothing, with a colon or without.
extractJsonAlwaysWraps(text) ==
    LET trimmed == Trim(text)
    IN  IF trimmed = <<>> THEN <<"{", "}">>
        ELSE IF JsonParse(trimmed).ok THEN trimmed
        ELSE IF BlockMatch(text) THEN Trim(Block(text))
        ELSE IF RegionMatch(text, "{", "}") THEN Region(text, "{", "}")
        ELSE IF RegionMatch(text, "[", "]") THEN Region(text, "[", "]")
        ELSE <<"{">> \o text \o <<"}">>

extractJson(text) ==
    LET trimmed == Trim(text)
    IN  IF trimmed = <<>> THEN <<"{", "}">>
        ELSE IF JsonParse(trimmed).ok THEN trimmed
        ELSE IF BlockMatch(text) THEN Trim(Block(text))
        ELSE IF RegionMatch(text, "{", "}") THEN Region(text, "{", "}")
        ELSE IF RegionMatch(text, "[", "]") THEN Region(text, "[", "]")
        ELSE IF Count(text, ":") > 0 THEN <<"{">> \o text \o <<"}">>
        ELSE <<"{", "}">>

\* A replace whose pattern has no whitespace between the comma and the closer.
RECURSIVE DropTrailingCommasAdjacent(_, _)
DropTrailingCommasAdjacent(s, i) ==
    IF i > Len(s) THEN <<>>
    ELSE IF s[i] = "," /\ i + 1 <= Len(s) /\ s[i + 1] \in {"}", "]"}
         THEN <<s[i + 1]>> \o DropTrailingCommasAdjacent(s, i + 2)
         ELSE <<s[i]>> \o DropTrailingCommasAdjacent(s, i + 1)

\* replace of a comma, whitespace and a closer by the closer, from s[i] on.
RECURSIVE DropTrailingCommas(_, _)
DropTrailingCommas(s, i) ==
    IF i > Len(s) THEN <<>>
    ELSE LET j == SkipWs(s, i + 1)
         IN  IF s[i] = "," /\ j <= Len(s) /\ s[j] \in {"}", "]"}
             THEN <<s[j]>> \o DropTrailingCommas(s, j + 1)
             ELSE <<s[i]>> \o DropTrailingCommas(s, i + 1)

\* The closers appended for the opens that outnumber them.
Missing(s, open, close) ==
    IF Count(s, open) > Count(s, close)
    THEN Repeat(close, Count(s, open) - Count(s, close)) ELSE <<>>

repairJson(json) ==
    LET commas == DropTrailingCommas(Trim(json), 1)
        curly  == commas \o Missing(commas, "{", "}")
    IN  curly \o Missing(curly, "[", "]")

\* new JsonOutputParser({schema}): the entries of the schema, in the order of
\* Object.entries.
Schema(entries) == [given |-> TRUE, entries |-> entries]

Entry(key, type) == [key |-> key, type |-> type]

\* What JSON.parse threw.
JsonSyntaxError == [name |-> "SyntaxError", field |-> <<>>, expected |-> "", actual |-> ""]

\* new Error(`Missing required field: ${key}`)
MissingField(key) ==
    [name |-> "Missing required field", field |-> key, expected |-> "", actual |-> ""]

\* new Error(`Field "${key}" should be ${type}, got ${actual}`)
WrongKind(key, type, actual) ==
    [name |-> "Field should be", field |-> key, expected |-> type, actual |-> actual]

\* The TypeError of the in operator on a value that is no object: Cannot use
\* 'in' operator to search for '${key}' in ${parsed}.
InTypeError(key) == [name |-> "TypeError", field |-> key, expected |-> "", actual |-> ""]

\* The number a text of digits denotes.
RECURSIVE ToNat(_)
ToNat(digits) ==
    IF digits = <<>> THEN 0
    ELSE 10 * ToNat(SubSeq(digits, 1, Len(digits) - 1))
         + (IF digits[Len(digits)] = "1" THEN 1 ELSE 2)

IsIndex(key) == key # <<>> /\ \A i \in 1..Len(key) : key[i] \in Digits

\* key in parsed: a member of an object, an index of an array.
In(key, parsed) ==
    CASE parsed.k = "object" -> \E i \in 1..Len(parsed.items) : parsed.items[i].text = key
      [] parsed.k = "array"  -> IsIndex(key) /\ ToNat(key) < Len(parsed.items)
      [] OTHER               -> FALSE

\* parsed[key], for a key that is in parsed.
Get(parsed, key) ==
    IF parsed.k = "array" THEN parsed.items[ToNat(key) + 1]
    ELSE LET i == CHOOSE j \in 1..Len(parsed.items) : parsed.items[j].text = key
         IN  parsed.items[i].items[1]

\* typeof, with no regard to arrays.
TypeofOnly(v) ==
    CASE v.k \in {"object", "array", "null"} -> "object"
      [] OTHER -> v.k

\* Array.isArray(v) ? "array" : typeof v
ActualKind(v) == IF v.k = "array" THEN "array" ELSE TypeofOnly(v)

\* validateSchema from entry i on: the error thrown, NoError when none is.
RECURSIVE validateFrom(_, _, _)
validateFrom(entries, parsed, i) ==
    IF i > Len(entries) THEN NoError
    ELSE LET key  == entries[i].key
             type == entries[i].type
         IN  IF parsed.k \notin {"object", "array"} THEN InTypeError(key)
             ELSE IF ~In(key, parsed) THEN MissingField(key)
             ELSE IF ActualKind(Get(parsed, key)) # type
                  THEN WrongKind(key, type, ActualKind(Get(parsed, key)))
             ELSE validateFrom(entries, parsed, i + 1)

validateSchema(schema, parsed) ==
    IF ~schema.given THEN NoError ELSE validateFrom(schema.entries, parsed, 1)

Returned(v) == [ok |-> TRUE, v |-> v, llmOutput |-> <<>>, originalError |-> NoError]

\* An exception that carries the trimmed text.
OutputParserExceptionTrimmed(text, error) ==
    [ok |-> FALSE, v |-> <<>>, llmOutput |-> Trim(text), originalError |-> error]

OutputParserException(text, error) ==
    [ok |-> FALSE, v |-> <<>>, llmOutput |-> text, originalError |-> error]

\* JsonOutputParser.parse of a parser constructed with the schema.
parse(schema, text) ==
    LET parsed == JsonParse(repairJson(extractJson(text)))
        error  == validateSchema(schema, parsed.v)
    IN  IF ~parsed.ok THEN OutputParserException(text, JsonSyntaxError)
        ELSE IF error # NoError THEN OutputParserException(text, error)
        ELSE Returned(parsed.v)

(***************************************************************************)
(* SpecJson: one call of JsonOutputParser.parse on a text.                 *)
(***************************************************************************)
MaxText == 4

Alphabet == {"{", "}", "[", "]", ",", ":", "\"", "a", "1", " "}

Texts(n) == UNION {[1..k -> Alphabet] : k \in 0..n}

\* Texts longer than MaxText: texts of the kinds the tests and the documentation
\* name, with missing closers, and valid JSON with a brace inside a string.
Examples == {
    <<"{", "\"", "a", "\"", ":", "1">>,
    <<"{", "\"", "a", "\"", ":", "\"", "{", "\"", "}">>,
    <<"{", "\"", "a", "\"", ":", "[", "{", "\"", "a", "\"", ":", "1", "}">>,
    <<Fence, Tag, "\n", "{", "\"", "a", "\"", ":", "1", "}", "\n", Fence>>,
    <<"{", "\"", "a", "\"", ":", "1", ",", "}">>,
    <<"\"", "a", "\"", ":", " ", "1">>,
    <<"[", "1", ",", "2", ",", "]">>,
    <<"{", "\"", "a", "\"", ":", "1", ",", "\n", "}">>,
    <<"[", "1", ",", "2", ",", "\n", " ", "]">>,
    <<" ", "\n", " ">>,
    <<"[", "1", ",", " ", "]">>,
    <<Fence, "\"", "[", "\"", Fence>>,
    <<"a", " ", Fence, Tag, "\n", "\"", "{", "\"", "\n", Fence, " ", "a">>,
    <<"a", "a", " ", "a", "\n", "a", "a", "1">> }

\* Prose around a code block.
Prose == {<<>>, <<"a", " ">>, <<"{">>, <<"a", ":">>}

\* What follows the opening fence: nothing, a newline, the tag, the tag and a newline.
Openers == {<<>>, <<"\n">>, <<Tag>>, <<Tag, "\n">>}

\* Prose, a code block around a text of up to n characters, prose.
FencedTexts(n) ==
    {before \o <<Fence>> \o opener \o inner \o <<Fence>> \o after :
        before \in Prose, opener \in Openers, inner \in Texts(n), after \in Prose}

\* The kinds a schema can ask for.
Kinds == {"string", "number", "boolean", "object", "array"}

Keys == {<<"a">>, <<"b">>, <<"1">>}

\* The schemas of no, one and two fields.  Object.entries lists the keys that
\* are array indices before the other keys.
Schemas ==
    {Schema(<<>>)}
    \cup {Schema(<<Entry(k, t)>>) : k \in Keys, t \in Kinds}
    \cup {Schema(<<Entry(e[1], e[2]), Entry(e[3], e[4])>>) :
            e \in {f \in Keys \X Kinds \X Keys \X Kinds :
                      f[1] # f[3] /\ (IsIndex(f[3]) => IsIndex(f[1]))}}

ValueTexts ==
    {<<"1">>, <<"\"", "a", "\"">>, <<"true">>, <<"null">>, <<"[", "1", "]">>, <<"{", "}">>}

MemberText(key, value) == <<"\"">> \o key \o <<"\"", ":">> \o value

\* Values, arrays of one and two values, objects of no, one and two members.
SchemaTexts ==
    ValueTexts
    \cup {<<"[">> \o v \o <<"]">> : v \in ValueTexts}
    \cup {<<"[">> \o v \o <<",">> \o w \o <<"]">> : v \in ValueTexts, w \in ValueTexts}
    \cup {<<"{", "}">>}
    \cup {<<"{">> \o MemberText(k, v) \o <<"}">> : k \in Keys, v \in ValueTexts}
    \cup {<<"{">> \o MemberText(m[1], m[2]) \o <<",">> \o MemberText(m[3], m[4]) \o <<"}">> :
            m \in {n \in Keys \X ValueTexts \X Keys \X ValueTexts : n[1] # n[3]}}

InitJson ==
    /\ objs = LeafObjs
    /\ arrs = <<>>
    /\ cur = 0
    /\ lastOp = NoOp
    /\ call = NoCall
    /\ stacks = [p \in Procs |-> <<>>]
    /\ settled = [p \in Procs |-> NoRet]
    /\ trace = [p \in Procs |-> <<>>]
    /\ notified = <<>>
    /\ chunks = <<>>
    /\ llm = NewLLM
    /\ imap = NoImap
    /\ promptCall = NoPromptCall
    /\ \/ \E text \in Texts(MaxText) \cup FencedTexts(MaxText - 2) \cup Examples :
             parserCall = [NoParserCall EXCEPT !.text = text]
       \/ \E schema \in Schemas, text \in SchemaTexts \cup Texts(MaxText - 3) :
             parserCall = [NoParserCall EXCEPT !.schema = schema, !.text = text]

ParseCall ==
    /\ ~parserCall.done
    /\ parserCall' = [parserCall EXCEPT !.done = TRUE,
                                        !.extracted = extractJson(parserCall.text),
                                        !.repaired = repairJson(extractJson(parserCall.text)),
                                        !.result = parse(parserCall.schema, parserCall.text)]
    /\ UNCHANGED <<imap, promptCall, objs, arrs, lastOp, cur, call, stacks, settled, trace, notified, chunks, llm>>

NextJson == ParseCall

SpecJson == InitJson /\ [][NextJson]_vars


(***************************************************************************)
(* Claims about JsonOutputParser                                           *)
(***************************************************************************)
\* The positions of s that lie inside a string literal.
InString(s) ==
    {i \in 1..Len(s) : s[i] # "\"" /\ Cardinality({j \in 1..(i - 1) : s[j] = "\""}) % 2 = 1}

Structural == {"{", "}", "[", "]", ","}

\* C19: for every text that is valid JSON after trimming, parse returns the
\* value of parsing the trimmed text directly: extraction and repair leave
\* the trimmed text unchanged and parse does not fail.
C19_ValidJsonParsesDirectly ==
    LET trimmed == Trim(parserCall.text)
    IN  parserCall.done /\ ~parserCall.schema.given /\ JsonParse(trimmed).ok =>
            /\ parserCall.extracted = trimmed
            /\ parserCall.repaired = trimmed
            /\ parserCall.result = Returned(JsonParse(trimmed).v)

\* C19, the part that holds: valid JSON whose string literals hold no brace,
\* bracket or comma is parsed as by parsing it directly.
C19_PlainStringsParseDirectly ==
    LET trimmed == Trim(parserCall.text)
    IN  /\ parserCall.done
        /\ ~parserCall.schema.given
        /\ JsonParse(trimmed).ok
        /\ \A i \in InString(trimmed) : trimmed[i] \notin Structural
        => /\ parserCall.extracted = trimmed
           /\ parserCall.repaired = trimmed
           /\ parserCall.result = Returned(JsonParse(trimmed).v)

\* The sequences of closing braces and brackets that make text valid JSON
\* when appended to it.
Closers(text) ==
    {c \in UNION {[1..k -> {"}", "]"}] : k \in 1..(Count(text, "{") + Count(text, "["))} :
        JsonParse(text \o c).ok}

\* C20: a text whose only defect is missing closing braces or brackets is
\* repaired by appending the missing closers and parses to the value of the
\* completed text; the text {"a":1 parses to the object {a:1}.
C20_MissingClosersRepaired ==
    parserCall.done /\ ~parserCall.schema.given /\ ~JsonParse(Trim(parserCall.text)).ok =>
        \A c \in Closers(parserCall.text) :
            /\ parserCall.repaired = parserCall.text \o c
            /\ parserCall.result = Returned(JsonParse(parserCall.text \o c).v)

\* C20, the part that holds: the repaired text has no more opening braces
\* than closing ones, and no more opening brackets than closing ones.
C20_RepairBalances ==
    parserCall.done =>
        /\ Count(parserCall.repaired, "{") <= Count(parserCall.repaired, "}")
        /\ Count(parserCall.repaired, "[") <= Count(parserCall.repaired, "]")


\* The commas of s that stand, with only whitespace between, before a closing
\* brace or bracket.
TrailingCommas(s) ==
    {i \in 1..Len(s) : /\ s[i] = ","
                       /\ SkipWs(s, i + 1) <= Len(s)
                       /\ s[SkipWs(s, i + 1)] \in {"}", "]"}}

\* The trailing commas of s and the whitespace between them and their closers.
Dropped(s) ==
    TrailingCommas(s) \cup
        {j \in 1..Len(s) : \E i \in TrailingCommas(s) : i < j /\ j < SkipWs(s, i + 1)}

\* s from position i on, without the positions in drop.
RECURSIVE KeepFrom(_, _, _)
KeepFrom(s, drop, i) ==
    IF i > Len(s) THEN <<>>
    ELSE (IF i \in drop THEN <<>> ELSE <<s[i]>>) \o KeepFrom(s, drop, i + 1)

WithoutTrailingCommas(s) == KeepFrom(s, Dropped(s), 1)

PlainStrings(s) == \A i \in InString(s) : s[i] \notin Structural

\* C21: every comma that stands, with at most whitespace between, before a
\* closing brace or bracket is removed before the final parse: the repaired
\* text begins with the extracted text without those commas, and a text that
\* is an object, or an array of no objects, once its trailing commas are
\* removed parses to the value of that text; {"a":1,} parses to {a:1} and
\* [1,2,] to [1,2], also with a newline between the comma and the closer.
C21_TrailingCommasRemoved ==
    LET kept    == WithoutTrailingCommas(Trim(parserCall.extracted))
        cleaned == Trim(WithoutTrailingCommas(parserCall.text))
    IN  parserCall.done =>
            /\ SubSeq(parserCall.repaired, 1, Len(kept)) = kept
            /\ ( /\ ~parserCall.schema.given
                 /\ TrailingCommas(parserCall.text) # {}
                 /\ JsonParse(cleaned).ok
                 /\ PlainStrings(cleaned)
                 /\ (cleaned[1] = "{" \/ Count(cleaned, "{") = 0)
                 => parserCall.result = Returned(JsonParse(cleaned).v) )

C21_Witness ==
    /\ parserCall.done
    /\ ~parserCall.schema.given
    /\ parserCall.text = <<"[", "1", ",", "2", ",", "\n", " ", "]">>
    /\ parserCall.repaired = <<"[", "1", ",", "2", "]">>
    /\ parserCall.result = Returned(JArr(<<JNum(<<"1">>), JNum(<<"2">>)>>))


\* A text with one code block and no quote in the prose around it.
OneBlock(text) ==
    /\ Count(text, Fence) = 2
    /\ \A i \in 1..Len(text) : text[i] = "\"" => First(text, Fence) < i /\ i < Last(text, Fence)

\* What a code block holds between its fences, after the tag if there is one.
Inner(text) ==
    LET p == First(text, Fence)
    IN  SubSeq(text, IF text[p + 1] = Tag THEN p + 2 ELSE p + 1, Last(text, Fence) - 1)

\* A text with no brace around it and no code block that is the inside of an object.
BareMembers(text) ==
    /\ Count(text, Fence) = 0
    /\ Trim(text) # <<>>
    /\ Trim(text)[1] # "{"
    /\ ~JsonParse(text).ok
    /\ JsonParse(<<"{">> \o text \o <<"}">>).ok

\* C22: a text with a code block, with or without the json tag, that holds a
\* JSON value parses to that value whatever prose stands before and after
\* the block; a text of key/value pairs with no braces around them parses to
\* the object of those pairs.
C22_BlockAndBarePairsParsed ==
    parserCall.done /\ ~parserCall.schema.given =>
        /\ OneBlock(parserCall.text) /\ JsonParse(Inner(parserCall.text)).ok
           => parserCall.result = Returned(JsonParse(Inner(parserCall.text)).v)
        /\ BareMembers(parserCall.text)
           => parserCall.result = Returned(JsonParse(<<"{">> \o parserCall.text \o <<"}">>).v)

\* C22, the part that holds: the value in the code block is returned when its
\* string literals hold no brace, bracket or comma, and bare pairs are
\* returned as an object when the text holds no brace and no bracket.
C22_PlainBlockAndPairsParsed ==
    parserCall.done /\ ~parserCall.schema.given =>
        /\ /\ OneBlock(parserCall.text)
           /\ JsonParse(Inner(parserCall.text)).ok
           /\ PlainStrings(Inner(parserCall.text))
           => parserCall.result = Returned(JsonParse(Inner(parserCall.text)).v)
        /\ /\ BareMembers(parserCall.text)
           /\ \A i \in 1..Len(parserCall.text) : parserCall.text[i] \notin {"{", "}", "[", "]"}
           => parserCall.result = Returned(JsonParse(<<"{">> \o parserCall.text \o <<"}">>).v)


\* Prose with no JSON-like structure and no colon: no brace, bracket, quote,
\* code fence or colon in it, and not a JSON value as it stands.
PlainProse(text) ==
    /\ \A i \in 1..Len(text) : text[i] \notin {"{", "}", "[", "]", "\"", ":", Fence}
    /\ ~JsonParse(Trim(text)).ok

\* C23: parse, by a parser with no schema, of the empty text, of a text of
\* whitespace only, and of prose with no JSON-like structure and no colon
\* returns the empty object.
C23_EmptyAndProseGiveEmptyObject ==
    ( /\ parserCall.done
      /\ ~parserCall.schema.given
      /\ (Trim(parserCall.text) = <<>> \/ PlainProse(parserCall.text)) )
    => parserCall.result = Returned(JObj(<<>>))

C23_Witness ==
    /\ parserCall.done
    /\ ~parserCall.schema.given
    /\ parserCall.text = <<"a", "a", " ", "a", "\n", "a", "a", "1">>
    /\ parserCall.extracted = <<"{", "}">>
    /\ parserCall.result = Returned(JObj(<<>>))


\* The kind of a value: array for an array, else its type tag, which is
\* object for an object and for null.
KindOfValue(v) ==
    CASE v.k = "array"            -> "array"
      [] v.k \in {"object", "null"} -> "object"
      [] OTHER                    -> v.k

\* Entry i of the schema is not met by the parsed value.
Unmet(entries, parsed, i) ==
    \/ ~In(entries[i].key, parsed)
    \/ KindOfValue(Get(parsed, entries[i].key)) # entries[i].type

C25_FailuresCarryTextAndCause ==
    LET parsed  == JsonParse(parserCall.repaired)
        entries == parserCall.schema.entries
        met     == \A i \in 1..Len(entries) : ~Unmet(entries, parsed.v, i)
        result  == parserCall.result
    IN  parserCall.done =>
            /\ ~parsed.ok =>
                  result = [ok |-> FALSE, v |-> <<>>, llmOutput |-> parserCall.text,
                            originalError |-> JsonSyntaxError]
            /\ parsed.ok /\ ~met =>
                  /\ ~result.ok
                  /\ result.llmOutput = parserCall.text
                  /\ result.originalError.name \in {"Missing required field", "Field should be", "TypeError"}
            /\ result.ok => parsed.ok /\ met /\ result.v = parsed.v /\ result.originalError = NoError

C25_Witness ==
    /\ parserCall.done
    /\ parserCall.text = <<" ", "{", ":">>
    /\ ~parserCall.result.ok
    /\ parserCall.result.llmOutput = <<" ", "{", ":">>
    /\ parserCall.result.originalError = JsonSyntaxError


(***************************************************************************)
(* BasePrompt and TemplatePrompt.  A template, a variable name and a value *)
(* are sequences of characters; a record of variables is the sequence of   *)
(* its entries in the order of Object.entries.                             *)
(***************************************************************************)
\* The characters \w matches.
WordChars == {"a", "b", "x"}

Bind(key, value) == [key |-> key, value |-> value]

\* key in vars
HasKey(vars0, key) == \E i \in 1..Len(vars0) : vars0[i].key = key

\* vars[key] = value: a key that is there keeps its place.
Assign(vars0, key, value) ==
    IF HasKey(vars0, key)
    THEN [i \in 1..Len(vars0) |-> IF vars0[i].key = key THEN Bind(key, value) ELSE vars0[i]]
    ELSE Append(vars0, Bind(key, value))

\* { ...target, ...source } from entry i of source on.
RECURSIVE SpreadFrom(_, _, _)
SpreadFrom(target, source, i) ==
    IF i > Len(source) THEN target
    ELSE SpreadFrom(Assign(target, source[i].key, source[i].value), source, i + 1)

\* A merge in which the partial variables win.
mergePartialWins(partialVariables, values) == SpreadFrom(values, partialVariables, 1)

\* { ...this.partialVariables, ...values }
mergeVariables(partialVariables, values) == SpreadFrom(partialVariables, values, 1)

\* The first position from i on that holds no word character.
RECURSIVE WordEnd(_, _)
WordEnd(s, i) == IF i <= Len(s) /\ s[i] \in WordChars THEN WordEnd(s, i + 1) ELSE i

\* /\{(\w+)\}/ matches at position i of s.
TokenAt(s, i) ==
    /\ s[i] = "{"
    /\ WordEnd(s, i + 1) > i + 1
    /\ WordEnd(s, i + 1) <= Len(s)
    /\ s[WordEnd(s, i + 1)] = "}"

\* template.match(/\{(\w+)\}/g) mapped by v.slice(1, -1), from position i on.
RECURSIVE ExtractFrom(_, _)
ExtractFrom(s, i) ==
    IF i > Len(s) THEN <<>>
    ELSE IF TokenAt(s, i)
         THEN <<SubSeq(s, i + 1, WordEnd(s, i + 1) - 1)>> \o ExtractFrom(s, WordEnd(s, i + 1) + 1)
         ELSE ExtractFrom(s, i + 1)

extractVariables(template) == ExtractFrom(template, 1)

\* new TemplatePrompt({template, inputVariables, partialVariables}): the
\* inputVariables of the prompt.  A list that is given, empty or not, is kept.
InputVariables(template, explicit, inputVariables) ==
    IF explicit THEN inputVariables ELSE extractVariables(template)

\* missing.join(", ")
RECURSIVE Join(_)
Join(names) ==
    IF names = <<>> THEN <<>>
    ELSE IF Len(names) = 1 THEN names[1]
    ELSE names[1] \o <<",", " ">> \o Join(Tail(names))

\* A filter that stops at the first key that is missing.
MissingVariablesFirst(inputVariables, merged) ==
    LET missing == SelectSeq(inputVariables, LAMBDA key : ~HasKey(merged, key))
    IN  IF missing = <<>> THEN <<>> ELSE <<missing[1]>>

\* this.inputVariables.filter(key => !(key in merged))
MissingVariables(inputVariables, merged) ==
    SelectSeq(inputVariables, LAMBDA key : ~HasKey(merged, key))

\* The replacement text of String.prototype.replace: $$ stands for $, and $&
\* for the text that matched.
RECURSIVE Expand(_, _)
Expand(value, matched) ==
    IF value = <<>> THEN <<>>
    ELSE IF Len(value) >= 2 /\ value[1] = "$" /\ value[2] = "$"
         THEN <<"$">> \o Expand(SubSeq(value, 3, Len(value)), matched)
    ELSE IF Len(value) >= 2 /\ value[1] = "$" /\ value[2] = "&"
         THEN matched \o Expand(SubSeq(value, 3, Len(value)), matched)
    ELSE <<value[1]>> \o Expand(Tail(value), matched)

\* result.replace(new RegExp(`\\{${key}\\}`, "g"), String(value)) from
\* position i of result on, for a key of word characters.
RECURSIVE ReplaceFrom(_, _, _, _)
ReplaceFrom(s, key, value, i) ==
    LET token == <<"{">> \o key \o <<"}">>
    IN  IF i > Len(s) THEN <<>>
        ELSE IF i + Len(token) - 1 <= Len(s) /\ SubSeq(s, i, i + Len(token) - 1) = token
             THEN Expand(value, token) \o ReplaceFrom(s, key, value, i + Len(token))
             ELSE <<s[i]>> \o ReplaceFrom(s, key, value, i + 1)

\* The loop of _render over Object.entries(merged), from entry i on.
RECURSIVE RenderFrom(_, _, _)
RenderFrom(result, merged, i) ==
    IF i > Len(merged) THEN result
    ELSE RenderFrom(ReplaceFrom(result, merged[i].key, merged[i].value, 1), merged, i + 1)

_render(prompt, values) ==
    RenderFrom(prompt.template, mergeVariables(prompt.partialVariables, values), 1)

\* BasePrompt.validate: the variables that are missing.
validate(prompt, values) ==
    MissingVariables(prompt.inputVariables, mergeVariables(prompt.partialVariables, values))

\* BasePrompt.render: validate throws, or _render returns the text.
render(prompt, values) ==
    IF validate(prompt, values) # <<>>
    THEN [ok |-> FALSE, text |-> <<>>, message |-> Join(validate(prompt, values))]
    ELSE [ok |-> TRUE, text |-> _render(prompt, values), message |-> <<>>]


(***************************************************************************)
(* SpecPrompt: a TemplatePrompt is constructed and render is called once.  *)
(***************************************************************************)
MaxParts == 3

\* What templates are put together from: placeholders, text, lone braces.
Parts == {<<"{", "a", "}">>, <<"{", "b", "}">>, <<"{", "a", "b", "}">>, <<"x">>, <<"{">>, <<"}">>}

RECURSIVE Concat(_)
Concat(parts) == IF parts = <<>> THEN <<>> ELSE parts[1] \o Concat(Tail(parts))

Templates(n) == {Concat(parts) : parts \in UNION {[1..k -> Parts] : k \in 0..n}}

Names == {<<"a">>, <<"b">>}

\* The values handed to render: text, a placeholder, a replacement pattern.
Values == {<<"x">>, <<"{", "b", "}">>, <<"$", "&">>}

\* The records of values of no, one and two variables.
ValueRecords ==
    {<<>>}
    \cup {<<Bind(k, v)>> : k \in Names, v \in Values}
    \cup {<<Bind(r[1], r[2]), Bind(r[3], r[4])>> :
            r \in {q \in Names \X Values \X Names \X Values : q[1] # q[3]}}

\* The partialVariables option: none, a default of one variable, of both.
PartialRecords ==
    {<<>>, <<Bind(<<"a">>, <<"p">>), Bind(<<"b">>, <<"p">>)>>}
    \cup {<<Bind(k, <<"p">>)>> : k \in Names}

\* The inputVariables option, when it is given.
ExplicitLists == {<<>>, <<<<"b">>, <<"a">>>>}

InitPrompt ==
    /\ objs = LeafObjs
    /\ arrs = <<>>
    /\ cur = 0
    /\ lastOp = NoOp
    /\ call = NoCall
    /\ stacks = [p \in Procs |-> <<>>]
    /\ settled = [p \in Procs |-> NoRet]
    /\ trace = [p \in Procs |-> <<>>]
    /\ notified = <<>>
    /\ chunks = <<>>
    /\ llm = NewLLM
    /\ imap = NoImap
    /\ parserCall = NoParserCall
    /\ \E template \in Templates(MaxParts), partial \in PartialRecords :
          \/ promptCall = [NoPromptCall EXCEPT !.pc = "options", !.template = template,
                                               !.partialVariables = partial]
          \/ \E list \in ExplicitLists :
                promptCall = [NoPromptCall EXCEPT !.pc = "options", !.template = template,
                                                  !.partialVariables = partial,
                                                  !.explicit = TRUE, !.option = list]

\* new TemplatePrompt(options)
NewTemplatePrompt ==
    /\ promptCall.pc = "options"
    /\ promptCall' = [promptCall EXCEPT
                         !.pc = "constructed",
                         !.inputVariables = InputVariables(promptCall.template, promptCall.explicit,
                                                           promptCall.option)]
    /\ UNCHANGED <<imap, parserCall, objs, arrs, lastOp, cur, call, stacks, settled, trace, notified,
                   chunks, llm>>

\* prompt.render(values)
RenderCall ==
    /\ promptCall.pc = "constructed"
    /\ \E values \in ValueRecords :
          promptCall' = [promptCall EXCEPT !.pc = "rendered", !.values = values,
                                           !.result = render(promptCall, values)]
    /\ UNCHANGED <<imap, parserCall, objs, arrs, lastOp, cur, call, stacks, settled, trace, notified,
                   chunks, llm>>

NextPrompt == NewTemplatePrompt \/ RenderCall

SpecPrompt == InitPrompt /\ [][NextPrompt]_vars


(***************************************************************************)
(* Claims about the prompts                                                *)
(***************************************************************************)
\* The variable is a key of the partial variables or of the values of the call.
Provided(name) ==
    \/ \E i \in 1..Len(promptCall.partialVariables) : promptCall.partialVariables[i].key = name
    \/ \E i \in 1..Len(promptCall.values) : promptCall.values[i].key = name

\* The required variables that are not provided, in the order of the list.
Absent == SelectSeq(promptCall.inputVariables, LAMBDA name : ~Provided(name))

ValueOf(name) ==
    IF \E i \in 1..Len(promptCall.values) : promptCall.values[i].key = name
    THEN promptCall.values[CHOOSE i \in 1..Len(promptCall.values) :
                               promptCall.values[i].key = name].value
    ELSE promptCall.partialVariables[CHOOSE i \in 1..Len(promptCall.partialVariables) :
                                         promptCall.partialVariables[i].key = name].value

\* The template from position i on, with the placeholder of every provided
\* variable replaced by the value of the variable.
RECURSIVE SubstituteFrom(_, _)
SubstituteFrom(s, i) ==
    IF i > Len(s) THEN <<>>
    ELSE IF TokenAt(s, i) /\ Provided(SubSeq(s, i + 1, WordEnd(s, i + 1) - 1))
         THEN ValueOf(SubSeq(s, i + 1, WordEnd(s, i + 1) - 1))
              \o SubstituteFrom(s, WordEnd(s, i + 1) + 1)
         ELSE <<s[i]>> \o SubstituteFrom(s, i + 1)

\* The text holds the placeholder of the variable.
HasToken(text, name) ==
    \E i \in 1..(Len(text) - Len(name) - 1) :
        SubSeq(text, i, i + Len(name) + 1) = <<"{">> \o name \o <<"}">>

\* The variables that are provided.
ProvidedNames == {name \in Names : Provided(name)}

\* C27: a render that succeeds returns the template with every occurrence of
\* the placeholder of every provided variable replaced by the value of the
\* variable, and the text returned holds no placeholder of a provided variable.
C27_RenderSubstitutesAll ==
    promptCall.pc = "rendered" /\ promptCall.result.ok =>
        /\ promptCall.result.text = SubstituteFrom(promptCall.template, 1)
        /\ \A name \in ProvidedNames : ~HasToken(promptCall.result.text, name)

\* C27, the part that holds: when no value holds a dollar sign or a brace,
\* the text returned is the template with the placeholders of the provided
\* variables replaced, and holds no placeholder of a provided variable.
C27_PlainValuesSubstituted ==
    /\ promptCall.pc = "rendered"
    /\ promptCall.result.ok
    /\ \A name \in ProvidedNames :
          \A i \in 1..Len(ValueOf(name)) : ValueOf(name)[i] \notin {"$", "{", "}"}
    => /\ promptCall.result.text = SubstituteFrom(promptCall.template, 1)
       /\ \A name \in ProvidedNames : ~HasToken(promptCall.result.text, name)


\* The names in the order of their first occurrence, each once.
RECURSIVE Dedupe(_)
Dedupe(names) ==
    IF names = <<>> THEN <<>>
    ELSE LET front == Dedupe(SubSeq(names, 1, Len(names) - 1))
             last  == names[Len(names)]
         IN  IF \E i \in 1..Len(front) : front[i] = last THEN front ELSE Append(front, last)

\* The names of the placeholders of the template, one for each occurrence, in order.
Placeholders(template) ==
    LET at == {i \in 1..Len(template) : TokenAt(template, i)}
        RECURSIVE Sorted(_)
        Sorted(S) == IF S = {} THEN <<>>
                     ELSE LET m == CHOOSE x \in S : \A y \in S : x <= y
                          IN  <<SubSeq(template, m + 1, WordEnd(template, m + 1) - 1)>>
                              \o Sorted(S \ {m})
    IN  Sorted(at)

\* C28: with no explicit list, the required variables of a constructed prompt
\* are the names of the placeholders of the template, each once, in the
\* order of their first occurrence; an explicit list is the list of required
\* variables as it was given.
C28_RequiredVariablesDerived ==
    promptCall.pc \in {"constructed", "rendered"} =>
        IF promptCall.explicit
        THEN promptCall.inputVariables = promptCall.option
        ELSE promptCall.inputVariables = Dedupe(Placeholders(promptCall.template))

\* C28, the part that holds: with no explicit list the required variables are
\* the names of the placeholders in template order, one for each occurrence;
\* an explicit list is kept as given.
C28_RequiredVariablesPerOccurrence ==
    promptCall.pc \in {"constructed", "rendered"} =>
        IF promptCall.explicit
        THEN promptCall.inputVariables = promptCall.option
        ELSE promptCall.inputVariables = Placeholders(promptCall.template)


\* No value in use holds a dollar sign or a brace.
PlainValues ==
    \A name \in ProvidedNames :
        \A i \in 1..Len(ValueOf(name)) : ValueOf(name)[i] \notin {"$", "{", "}"}

\* C29: with partial variables, a render in which every required variable is
\* provided by the partial variables or by the values succeeds, and the text
\* has, for a variable that is in both, the value of the call, and for a
\* variable that only the partial variables provide, the partial value.
C29_SuppliedValueWins ==
    promptCall.pc = "rendered" /\ promptCall.partialVariables # <<>> =>
        /\ (\A i \in 1..Len(promptCall.inputVariables) : Provided(promptCall.inputVariables[i]))
           => promptCall.result.ok
        /\ promptCall.result.ok /\ PlainValues
           => promptCall.result.text = SubstituteFrom(promptCall.template, 1)

C29_Witness ==
    /\ promptCall.pc = "rendered"
    /\ ~promptCall.explicit
    /\ promptCall.template = <<"{", "a", "}", "{", "b", "}">>
    /\ promptCall.partialVariables = <<Bind(<<"a">>, <<"p">>), Bind(<<"b">>, <<"p">>)>>
    /\ promptCall.values = <<Bind(<<"b">>, <<"x">>)>>
    /\ promptCall.result.ok
    /\ promptCall.result.text = <<"p", "x">>


(***************************************************************************)
(* StringOutputParser                                                      *)
(***************************************************************************)
\* The first position k from i on with a newline at k and a fence at k + 1;
\* 0 when there is none.
RECURSIVE BlockEnd(_, _)
BlockEnd(s, i) ==
    IF i + 1 > Len(s) THEN 0
    ELSE IF s[i] = "\n" /\ s[i + 1] = Fence THEN i
    ELSE BlockEnd(s, i + 1)

\* text.replace(/```[\w]*\n([\s\S]*?)\n```/g, "$1") from position i on.
RECURSIVE StripFrom(_, _)
StripFrom(s, i) ==
    IF i > Len(s) THEN <<>>
    ELSE LET nl  == WordEnd(s, i + 1)
             end == IF nl <= Len(s) /\ s[nl] = "\n" THEN BlockEnd(s, nl + 1) ELSE 0
         IN  IF s[i] = Fence /\ end > 0
             THEN SubSeq(s, nl + 1, end - 1) \o StripFrom(s, end + 2)
             ELSE <<s[i]>> \o StripFrom(s, i + 1)

stripMarkdownCodeBlocks(text) == Trim(StripFrom(text, 1))

\* StringOutputParser.parse
parseString(stripMarkdown, text) ==
    IF stripMarkdown THEN stripMarkdownCodeBlocks(Trim(text)) ELSE Trim(text)

(***************************************************************************)
(* SpecString: one call of StringOutputParser.parse on a text.             *)
(***************************************************************************)
StringAlphabet == {Fence, "\n", "a", "+", " "}

StringTexts(n) == UNION {[1..k -> StringAlphabet] : k \in 0..n}

\* Longer texts: a block with a tag, two blocks in prose, a block of two lines.
StringExamples == {
    <<Fence, "a", "+", "+", "\n", "a", "\n", Fence>>,
    <<"a", "\n", Fence, "\n", "a", "\n", Fence, "\n", "a", "\n", Fence, "a", "\n", "b", "\n", Fence, "\n", "a">>,
    <<" ", Fence, "a", "\n", "a", "\n", "b", "\n", Fence, " ">> }

InitString ==
    /\ objs = LeafObjs
    /\ arrs = <<>>
    /\ cur = 0
    /\ lastOp = NoOp
    /\ call = NoCall
    /\ stacks = [p \in Procs |-> <<>>]
    /\ settled = [p \in Procs |-> NoRet]
    /\ trace = [p \in Procs |-> <<>>]
    /\ notified = <<>>
    /\ chunks = <<>>
    /\ llm = NewLLM
    /\ imap = NoImap
    /\ promptCall = NoPromptCall
    /\ \E text \in StringTexts(MaxText + 1) \cup StringExamples, stripMarkdown \in BOOLEAN :
          parserCall = [NoParserCall EXCEPT !.text = text, !.stripMarkdown = stripMarkdown]

StringParseCall ==
    /\ ~parserCall.done
    /\ parserCall' = [parserCall EXCEPT
                         !.done = TRUE,
                         !.result = Returned(JStr(parseString(parserCall.stripMarkdown,
                                                              parserCall.text)))]
    /\ UNCHANGED <<imap, promptCall, objs, arrs, lastOp, cur, call, stacks, settled, trace, notified,
                   chunks, llm>>

NextString == StringParseCall

SpecString == InitString /\ [][NextString]_vars


(***************************************************************************)
(* Claims about StringOutputParser                                         *)
(***************************************************************************)
Fences(s) == {i \in 1..Len(s) : s[i] = Fence}

\* The fence at position i opens a block: an even number of fences precede it.
Opens(s, i) == Cardinality({f \in Fences(s) : f < i}) % 2 = 0

\* The fence that closes the block the fence at position i opens.
Closer(s, i) == CHOOSE c \in Fences(s) : c > i /\ \A f \in Fences(s) : f > i => c <= f

\* The end of the line of the opening fence at position i.
OpenerEnd(s, i) == CHOOSE n \in (i + 1)..Len(s) : s[n] = "\n" /\ \A m \in (i + 1)..(n - 1) : s[m] # "\n"

\* Every fence of s is the opening or the closing fence of a code block: the
\* fences pair up, each stands at the start of a line, and a closing fence
\* ends its line.
FencedBlocksOnly(s) ==
    /\ Cardinality(Fences(s)) % 2 = 0
    /\ \A i \in Fences(s) :
          /\ i = 1 \/ s[i - 1] = "\n"
          /\ ~Opens(s, i) => i = Len(s) \/ s[i + 1] = "\n"

\* s from position i on with every code block replaced by the lines between
\* its fences.
RECURSIVE BlocksReplacedFrom(_, _)
BlocksReplacedFrom(s, i) ==
    IF i > Len(s) THEN <<>>
    ELSE IF s[i] = Fence
         THEN SubSeq(s, OpenerEnd(s, i) + 1, Closer(s, i) - 2)
              \o BlocksReplacedFrom(s, Closer(s, i) + 1)
         ELSE <<s[i]>> \o BlocksReplacedFrom(s, i + 1)

\* The opening fence at position i is followed by a tag of word characters
\* only, and there is a line between the fences.
PlainBlock(s, i) ==
    /\ \A m \in (i + 1)..(OpenerEnd(s, i) - 1) : s[m] \in WordChars
    /\ OpenerEnd(s, i) < Closer(s, i) - 1

\* C30: parse returns the trimmed text; unless stripMarkdown is false, every
\* code block of the text, however many there are and wherever they stand,
\* is replaced by the lines between its fences, and the text returned holds
\* no fence; with stripMarkdown false the trimmed text is returned with its
\* fences.
C30_StringParserStripsBlocks ==
    LET trimmed == Trim(parserCall.text)
    IN  parserCall.done =>
            IF parserCall.stripMarkdown
            THEN FencedBlocksOnly(trimmed) =>
                    /\ parserCall.result = Returned(JStr(Trim(BlocksReplacedFrom(trimmed, 1))))
                    /\ Fences(parserCall.result.v.text) = {}
            ELSE parserCall.result = Returned(JStr(trimmed))

\* C30, the part that holds: the same for texts in which every opening fence
\* is followed by a tag of word characters only, or no tag, and every block
\* has at least one line between its fences.
C30_PlainBlocksStripped ==
    LET trimmed == Trim(parserCall.text)
    IN  parserCall.done =>
            IF parserCall.stripMarkdown
            THEN ( /\ FencedBlocksOnly(trimmed)
                   /\ \A i \in Fences(trimmed) : Opens(trimmed, i) => PlainBlock(trimmed, i) )
                 => /\ parserCall.result = Returned(JStr(Trim(BlocksReplacedFrom(trimmed, 1))))
                    /\ Fences(parserCall.result.v.text) = {}
            ELSE parserCall.result = Returned(JStr(trimmed))


(***************************************************************************)
(* Claims about the LlamaCppLLM instance.                                  *)
(***************************************************************************)
\* The frames of _execute and streamOutput whose generation has begun: the
\* frame holds the history and the system prompt the session handed to the
\* backend.
GeneratingFrames ==
    {f \in UNION {{stacks[p][i] : i \in 1..Len(stacks[p])} : p \in Callers} :
        f.t \in {"llmexec", "llmstream"} /\ Generating(f)}

\* The content of the first system message of the list, the empty string
\* when it has none.
FirstSystemContent(messages) ==
    IF \E i \in 1..Len(messages) : messages[i].type = "system"
    THEN messages[CHOOSE i \in 1..Len(messages) :
                    /\ messages[i].type = "system"
                    /\ \A j \in 1..(i - 1) : messages[j].type # "system"].content
    ELSE <<>>

\* The places of the messages that are no system messages, in order.
RECURSIVE NonSystemFrom(_, _)
NonSystemFrom(messages, i) ==
    IF i > Len(messages) THEN <<>>
    ELSE (IF messages[i].type = "system" THEN <<>> ELSE <<messages[i]>>)
         \o NonSystemFrom(messages, i + 1)

\* The role and the text the backend is handed for a message.
RoleOf(msg) ==
    CASE msg.type = "human" -> "user"
      [] msg.type = "ai" -> "model"
      [] msg.type \in {"system", "tool"} -> "system"
      [] OTHER -> "user"

TextOf(msg) == IF msg.type = "tool" THEN <<"Tool Result: ">> \o msg.content ELSE msg.content

\* history holds one item for every message of the list, in the order of the list.
Converted(history, messages) ==
    /\ Len(history) = Len(messages)
    /\ \A i \in 1..Len(messages) :
          /\ history[i].type = RoleOf(messages[i])
          /\ history[i].text = TextOf(messages[i])

(***************************************************************************)
(* C31, as stated: for a run on a message list the system message's        *)
(* content is the backend's system-level instruction (the empty string     *)
(* when there is none), and only the other, non-system messages are        *)
(* passed, in their original order, as the conversation history.           *)
(***************************************************************************)
C31_SystemMessageExtracted ==
    \A f \in GeneratingFrames :
       LET messages == InputMessages(f.input)
       IN  /\ f.sys = FirstSystemContent(messages)
           /\ Converted(f.acc.items, NonSystemFrom(messages, 1))

(***************************************************************************)
(* C31, what the code does: for a run or a stream on a message list (or a  *)
(* string, taken as one human message) the content of the first system     *)
(* message is the backend's system-level instruction (the empty string     *)
(* when there is none), and every message of the list, the system messages *)
(* included, is passed in the original order as the conversation history:  *)
(* a system message as a system item, a tool message as a system item      *)
(* "Tool Result: ...", a human message as a user item, an ai message as a  *)
(* model item.                                                             *)
(***************************************************************************)
C31_AllMessagesInHistory ==
    \A f \in GeneratingFrames :
       LET messages == InputMessages(f.input)
       IN  /\ f.sys = FirstSystemContent(messages)
           /\ Converted(f.acc.items, messages)


\* The events e of trace tr, in order.
EventsOf(tr, e) == SelectSeq(tr, LAMBDA ev : ev.e = e)

\* The caller called runBatch on the LlamaCppLLM.
LLMBatchCalled == call.m = "runBatch" /\ objs[cur].kind = "LlamaCppLLM"

(***************************************************************************)
(* C32: LlamaCppLLM.runBatch processes the inputs one at a time in input   *)
(* order: the i-th _execute it starts is the one of input i, it is handed  *)
(* clearHistory = true, it starts only when the generation of input i - 1  *)
(* is over, and its generation starts from a history that holds the        *)
(* message of input i and nothing of the inputs before it; the results are *)
(* returned in input order.                                                *)
(***************************************************************************)
C32_BatchIsolatesHistory ==
    LLMBatchCalled =>
      LET inputs   == BatchInputs(call.n)
          executes == EventsOf(trace[0], "execute")
          starts   == EventsOf(trace[0], "generationStart")
      IN  /\ Len(executes) <= call.n
          /\ \A i \in 1..Len(executes) :
                /\ executes[i].rid = <<0, i>>
                /\ executes[i].v = inputs[i]
          /\ Len(starts) <= Len(executes)
          /\ Len(executes) <= Len(starts) + 1
          /\ \A i \in 1..Len(starts) :
                /\ starts[i].rid = <<0, i>>
                /\ starts[i].v.items = <<[type |-> "user", text |-> inputs[i].text]>>
          /\ \A i \in 1..Len(stacks[0]) :
                stacks[0][i].t = "llmexec" => stacks[0][i].cfg.clearHistory
          /\ \A s \in 1..Len(llm.sessions) : llm.sessions[s].busy <= 1
          /\ (settled[0].set /\ settled[0].ok) =>
                /\ Len(settled[0].v.items) = call.n
                /\ \A i \in 1..call.n :
                      settled[0].v.items[i] = AIMessage(<<"ai:">> \o inputs[i].text)

\* runBatch(["x1", "x2"]) has resolved: two generations were started, each
\* from the history of its own input, and the results are in input order.
C32_Witness ==
    /\ LLMBatchCalled
    /\ call.n = 2
    /\ settled[0].set
    /\ settled[0].ok
    /\ Len(EventsOf(trace[0], "generationStart")) = 2
    /\ settled[0].v.items = <<AIMessage(<<"ai:", "x1">>), AIMessage(<<"ai:", "x2">>)>>
    /\ llm.sessions[llm.sid].history =
          <<[type |-> "user", text |-> <<"x2">>], [type |-> "model", text |-> <<"ai:", "x2">>]>>


\* The caller called runBatch of Action on cur.
BatchCalled == call.m = "runBatch" /\ objs[cur].kind # "LlamaCppLLM"

\* The settlements of the invocations of the batch, in the order in time.
Settlements == SelectSeq(trace[0], LAMBDA ev : ev.e \in {"fulfilled", "rejected"})

\* The invocations that failed, in the order in time.
Failures == EventsOf(trace[0], "rejected")

\* What runBatch settles with: the settlement Promise.all has decided on, then
\* the settlement of the call.
BatchOutcome ==
    IF settled[0].set THEN settled[0]
    ELSE IF stacks[0] # <<>> THEN Top(stacks[0]).ret
    ELSE NoRet

\* Call chain p can take a step.
CanStep(p) ==
    \/ ENABLED RunExecute(p)
    \/ ENABLED RunFinish(p)
    \/ ENABLED PipelineStep(p)
    \/ ENABLED LLMInitialize(p)
    \/ ENABLED LLMLoaded(p)
    \/ ENABLED LLMPrompt(p)
    \/ ENABLED LLMGenerated(p)

\* Call chain p waits for the backend, whose session is busy with the
\* generation of another invocation.
Deferred(p) ==
    /\ Top(stacks[p]).pc = "deferred"
    /\ llm.sessions[Top(stacks[p]).sid].busy > 0 \/ ENABLED LLMDeferredStart(p)

(***************************************************************************)
(* C34: every invocation of Action.runBatch is started by the call; as     *)
(* soon as one invocation fails, runBatch rejects with the error of the    *)
(* invocation that failed first in time, with no partial results, and      *)
(* keeps that outcome; every other invocation goes on (it is not           *)
(* cancelled: it can always take its next step until it has settled) and   *)
(* its outcome changes nothing.                                            *)
(***************************************************************************)
C34_BatchFailsFast ==
    BatchCalled =>
      /\ \A p \in 1..call.n :
            /\ trace[p] # <<>>
            /\ trace[p][1] = Ev("handleStart", cur, <<p>>, BatchInputs(call.n)[p], NoErr)
            /\ settled[p].set \/ (stacks[p] # <<>> /\ (CanStep(p) \/ Deferred(p)))
      /\ Failures # <<>> =>
            /\ BatchOutcome = ErrRet(Failures[1].err)
            /\ BatchOutcome.v = NoVal
      /\ (Failures = <<>> /\ BatchOutcome.set /\ call.n > 0) => Len(Settlements) = call.n

\* A batch of two on the base Action: the second invocation failed first and
\* the batch rejected with its error; the first invocation has run to its
\* end after that and failed as well, and the batch keeps the first error.
C34_Witness ==
    /\ BatchCalled
    /\ call.n = 2
    /\ Len(Failures) = 2
    /\ Failures[1].rid = <<2>>
    /\ Failures[2].rid = <<1>>
    /\ settled[0] = ErrRet(Failures[1].err)
    /\ settled[0].e.at = <<2>>
    /\ settled[1].set
    /\ settled[2].set


\* The sessions created for the instance (by an _initialize that loaded the
\* model and created the context) after d calls of dispose had completed and
\* before the next one completed.
SessionsCreated(d) == {s \in 1..Len(llm.sessions) : llm.sessions[s].epoch = d}

(***************************************************************************)
(* C35: a LlamaCppLLM instance loads its model and creates its chat        *)
(* session at most once between construction (or a dispose) and the next   *)
(* dispose, even when several calls start before the first load has        *)
(* finished.                                                               *)
(***************************************************************************)
C35_LoadsOnce ==
    \A d \in 0..llm.disposes : Cardinality(SessionsCreated(d)) <= 1


\* The stream of consumer p ended with an error that its own generation
\* explains: the model could not be loaded, or the backend rejected the prompt.
OwnFailure(p) ==
    \/ settled[p].e.msg = "Failed to initialize model"
    \/ /\ settled[p].e.msg = "Streaming failed: backend error"
       /\ EventsOf(trace[p], "backendRejected") # <<>>

(***************************************************************************)
(* C36: two streamOutput consumers running concurrently on one LlamaCppLLM *)
(* instance each receive exactly the chunks of their own generation: every *)
(* chunk a consumer receives was produced by its own generation, in the    *)
(* order of production; a stream that ends normally has delivered all of   *)
(* them; and no stream fails because the other stream reset or removed the *)
(* shared chunk buffer.                                                    *)
(***************************************************************************)
C36_StreamsIsolated ==
    \A p \in Callers :
       /\ IsPrefix(Yielded(trace[p]), Produced(trace[p]))
       /\ (settled[p].set /\ settled[p].ok) => Yielded(trace[p]) = Produced(trace[p])
       /\ (settled[p].set /\ ~settled[p].ok) => OwnFailure(p)


\* The streams of the LlamaCppLLM that call chain p has begun: their events.
LLMStreams(p) ==
    {i \in 1..Len(trace[p]) :
        trace[p][i].e = "streamOutput" /\ objs[trace[p][i].u].kind = "LlamaCppLLM"}

\* The chunks of trace tr that event e (yield, produced) records for the
\* stream with path rid, in order.
ChunksOf(tr, e, rid) ==
    LET evs == SelectSeq(tr, LAMBDA ev : ev.e = e /\ ev.rid = rid)
    IN  [i \in 1..Len(evs) |-> evs[i].v]

\* The polling loop of the stream on top of the stack of p can take a turn
\* that does not end the stream.
LoopGoesOn(p) == ENABLED (LLMStreamPoll(p) /\ Len(stacks'[p]) >= Len(stacks[p]))

(***************************************************************************)
(* C37: LlamaCppLLM.streamOutput terminates once the backend's generation  *)
(* promise settles.  While the promise is settled and the stream has not   *)
(* ended, the next turn of the polling loop ends it (the loop does not go  *)
(* on).  A stream whose generation began ends only after the promise       *)
(* settled: when the promise resolved, the stream has yielded every chunk  *)
(* the backend produced and has ended normally; when it rejected, the      *)
(* stream has thrown a Streaming failed error.                             *)
(***************************************************************************)
C37_StreamEndsOnSettlement ==
    call.m = "streamOutput" =>
      /\ (stacks[0] # <<>> /\ Top(stacks[0]).t = "llmstream" /\ Top(stacks[0]).ret.set) =>
            ~LoopGoesOn(0)
      /\ \A i \in LLMStreams(0) :
            LET rid      == trace[0][i].rid
                resolved == EvIdx(trace[0], "backendResolved", rid) # {}
                rejected == EvIdx(trace[0], "backendRejected", rid) # {}
                began    == EvIdx(trace[0], "generationStart", rid) # {}
            IN  (settled[0].set /\ began) =>
                  /\ resolved \/ rejected
                  /\ resolved =>
                        /\ settled[0] = OkRet(NoVal)
                        /\ ChunksOf(trace[0], "yield", rid) = ChunksOf(trace[0], "produced", rid)
                  /\ rejected =>
                        /\ ~settled[0].ok
                        /\ settled[0].e.msg = "Streaming failed: backend error"

\* A stream of the LlamaCppLLM has ended normally: the backend produced c1
\* and c2, the first turn of the loop yielded c1, the promise resolved, and
\* the last turn yielded c2, the chunk not yet delivered.
C37_Witness ==
    /\ call.m = "streamOutput"
    /\ objs[cur].kind = "LlamaCppLLM"
    /\ settled[0] = OkRet(NoVal)
    /\ chunks = <<AIMessage(<<"c1">>), AIMessage(<<"c2">>)>>
    /\ \E i, j, k \in 1..Len(trace[0]) :
          /\ i < j
          /\ j < k
          /\ trace[0][i].e = "yield"
          /\ trace[0][j].e = "backendResolved"
          /\ trace[0][k].e = "yield"
    /\ ~llm.buffer.defined


\* The resources of the session the instance holds are there.
SessionIntact ==
    /\ llm.sid # 0
    /\ ~llm.contexts[llm.sessions[llm.sid].context].disposed
    /\ ~llm.models[llm.contexts[llm.sessions[llm.sid].context].model].disposed

(***************************************************************************)
(* C38: in every reachable state of a LlamaCppLLM instance, the states in  *)
(* the middle of dispose() included, _initialized being true implies that  *)
(* the chat session exists and that its context and model have not been    *)
(* disposed; after dispose() has completed _initialized is false until the *)
(* next run has initialized the instance again.                            *)
(***************************************************************************)
C38_InitializedMeansUsable ==
    llm.initialized => SessionIntact

(***************************************************************************)
(* C38, the part that holds: when no dispose() is in progress,             *)
(* _initialized being true implies that the chat session exists and that   *)
(* its context and model have not been disposed; and every generation      *)
(* that begins after a dispose() has completed runs on a session that was  *)
(* created after that dispose (the run re-initialized first).              *)
(***************************************************************************)
C38_UsableOutsideDispose ==
    /\ (call.dispose \in {"none", "done"} /\ llm.initialized) => SessionIntact
    /\ \A p \in Callers :
          (stacks[p] # <<>> /\ Top(stacks[p]).pc = "ready" /\ call.dispose = "done"
             /\ llm.sid # 0) => llm.sessions[llm.sid].epoch = llm.disposes


(***************************************************************************)
(* Claims about the IMAP client.                                           *)
(***************************************************************************)

Uids(s) == {s[k] : k \in DOMAIN s}

\* The n largest of the uids of an inbox (all of them when it holds fewer).
Largest(inbox, n) ==
    {u \in Uids(inbox) : Cardinality({v \in Uids(inbox) : v > u}) < n}

\* C33: for every limit >= 0, fetchLatest(limit) requests at most limit
\* messages from the server, namely those with the limit largest uids (all of
\* them when the inbox holds fewer than limit).
C33_RequestsAtMostLimit ==
    imap.pc \notin {"none", "called"} =>
        /\ Len(imap.last) <= imap.limit
        /\ Uids(imap.last) = Largest(imap.inbox, imap.limit)

\* What the code does: for every limit > 0 the request is for the limit
\* largest uids in ascending order, and for limit 0 it is for the whole inbox.
C33_LatestForPositiveLimit ==
    imap.pc \notin {"none", "called"} =>
        /\ imap.last = SortAscending(imap.last)
        /\ imap.limit > 0 =>
               /\ Len(imap.last) <= imap.limit
               /\ Uids(imap.last) = Largest(imap.inbox, imap.limit)
        /\ imap.limit = 0 => Uids(imap.last) = Uids(imap.inbox)

Parsing == {m \in DOMAIN imap.env : imap.env[m].parsing}

\* C39: the promise of fetchMessages is resolved only when the fetch has
\* emitted end and no body parse is still pending; the list it is resolved
\* with holds exactly one entry for every message event of the fetch; a failed
\* body parse is recorded in the parseError of its message and never rejects
\* the promise.
C39_ResolvesWhenDone ==
    /\ (imap.fetched /\ imap.promise.state = "resolved") =>
           /\ imap.fetchEnded
           /\ Parsing = {}
           /\ Len(imap.promise.value) = Len(imap.env)
           /\ Uids(imap.promise.value) = DOMAIN imap.env
    /\ imap.promise.state = "rejected" => imap.fetchError
    /\ \A m \in DOMAIN imap.parts :
           (imap.env[m].bodies > 0 /\ ~imap.env[m].parsing) =>
               imap.parts[m].parsed # imap.parts[m].parseError

\* A fetch of two messages, resolved and returned by fetchLatest although
\* the parse of one body failed.
C39_Witness ==
    /\ imap.promise.state = "resolved"
    /\ Len(imap.promise.value) = 2
    /\ \E m \in DOMAIN imap.parts : imap.parts[m].parseError
    /\ \E m \in DOMAIN imap.parts : imap.parts[m].parsed
    /\ imap.pc = "returned"

\* Nothing more will happen to the promise: the fetch has ended and every
\* parse that was started has settled.
FetchQuiet == (imap.fetchEnded \/ imap.fetchError) /\ Parsing = {}

\* C40: fetchMessages always settles: an empty uid list resolves with the
\* empty list without a fetch, and for any sequence of message, body,
\* attributes and message-end events followed by the end (or the error) of the
\* fetch the promise is resolved (or rejected); it never stays pending after
\* the fetch has ended.
C40_AlwaysSettles ==
    /\ (imap.pc \notin {"none", "called"} /\ imap.last = <<>>) =>
           (~imap.fetched /\ imap.promise = [state |-> "resolved", value |-> <<>>])
    /\ FetchQuiet => imap.promise.state # "pending"

\* What the code does: the promise is settled after the end of a fetch
\* whose every message had a body event; a message without one keeps the
\* count of pending messages above zero for good.
C40_SettlesWhenEveryMessageHasABody ==
    /\ (imap.pc \notin {"none", "called"} /\ imap.last = <<>>) =>
           (~imap.fetched /\ imap.promise = [state |-> "resolved", value |-> <<>>])
    /\ (FetchQuiet /\ \A m \in DOMAIN imap.env : imap.env[m].bodies > 0) =>
           imap.promise.state # "pending"
    /\ (FetchQuiet /\ imap.fetchEnded /\ ~imap.fetchError
            /\ \E m \in DOMAIN imap.env : imap.env[m].bodies = 0) =>
           imap.promise.state = "pending"

====
